---- MODULE Spec2Model ----
(***************************************************************************)
(* PRONAS/PCD project generator and compliance validator.                  *)
(*                                                                         *)
(* The repository holds two PronasAIEngine classes:                        *)
(*   "backend"   src/backend/ai/engine.py                                  *)
(*   "enhanced"  src/ai-service-enhanced.py (builds pydantic objects of    *)
(*               src/schemas.py)                                           *)
(* Both are modelled; the variable impl says which one serves the request. *)
(*                                                                         *)
(* Money is an integer number of centavos.  budget_total of a request is a *)
(* whole number of reais.  Scores are integers in units of 1/6000.  Text   *)
(* fields are modelled by their length in characters.  Role labels are     *)
(* written without accents.                                                *)
(***************************************************************************)
EXTENDS Integers, Sequences, FiniteSets, TLC

\* ------------------------------------------------------------------------
\* Bounds of the model
\* ------------------------------------------------------------------------
\* durations 0..MaxDuration are given to the timeline builder and the validator
MaxDuration == 50
\* random.uniform(min, max) is sampled at SalaryLevels + 1 evenly spaced points
SalaryLevels == 1

Impls == {"backend", "enhanced"}
AreaCodes == {"QSS", "RPD", "DDP", "EPD", "ITR", "APE", "TAA", "APC"}
UnknownCodes == {"XYZ"}
\* requested budgets, in reais
Budgets == {10000, 500000, 1030908, 2400000}
\* requested durations, in months
RequestDurations == {5, 6, 24, 48, 49}

Cents(reais) == reais * 100

Min2(a, b) == IF a < b THEN a ELSE b
Max2(a, b) == IF a > b THEN a ELSE b
Abs(a) == IF a < 0 THEN -a ELSE a

RECURSIVE SumSeq(_)
SumSeq(s) == IF Len(s) = 0 THEN 0 ELSE s[1] + SumSeq(Tail(s))

\* ------------------------------------------------------------------------
\* Python float (IEEE-754 binary64), for the amounts the code compares exactly.
\* A value is [m, e]: a 53-bit mantissa m as little-endian base-256 limbs and
\* an exponent e, standing for m * 2^e; zero is the empty mantissa.
\* ------------------------------------------------------------------------
LimbBase == 256
MantissaBits == 53
DivGuardBits == 32

RECURSIVE BigFromInt(_)
BigFromInt(n) == IF n = 0 THEN << >> ELSE <<n % LimbBase>> \o BigFromInt(n \div LimbBase)

RECURSIVE BigStrip(_)
BigStrip(X) == IF Len(X) > 0 /\ X[Len(X)] = 0 THEN BigStrip(SubSeq(X, 1, Len(X) - 1)) ELSE X

RECURSIVE BigMulCarry(_, _, _)
BigMulCarry(X, k, c) ==
    IF Len(X) = 0 THEN BigFromInt(c)
    ELSE LET t == X[1] * k + c
         IN <<t % LimbBase>> \o BigMulCarry(Tail(X), k, t \div LimbBase)

BigMulSmall(X, k) == BigStrip(BigMulCarry(X, k, 0))

RECURSIVE BigDivRem(_, _, _, _)
BigDivRem(X, k, i, r) ==
    IF i = 0 THEN [q |-> << >>, r |-> r]
    ELSE LET t == r * LimbBase + X[i]
             rest == BigDivRem(X, k, i - 1, t % k)
         IN [q |-> rest.q \o <<t \div k>>, r |-> rest.r]

BigDivSmall(X, k) ==
    LET d == BigDivRem(X, k, Len(X), 0) IN [q |-> BigStrip(d.q), r |-> d.r]

RECURSIVE IntBitLen(_)
IntBitLen(n) == IF n = 0 THEN 0 ELSE 1 + IntBitLen(n \div 2)

BigBitLen(X) ==
    LET S == BigStrip(X) IN IF Len(S) = 0 THEN 0 ELSE 8 * (Len(S) - 1) + IntBitLen(S[Len(S)])

RECURSIVE Pow2(_)
Pow2(n) == IF n = 0 THEN 1 ELSE 2 * Pow2(n - 1)

BigShiftLeft(X, n) == [i \in 1..(n \div 8) |-> 0] \o BigMulSmall(X, Pow2(n % 8))

\* right shift by n bits; sticky tells whether a non-zero bit was shifted out
BigShiftRight(X, n) ==
    LET drop == Min2(n \div 8, Len(X))
        low == SubSeq(X, 1, drop)
        high == SubSeq(X, drop + 1, Len(X))
        d == BigDivSmall(high, Pow2(n % 8))
    IN [q |-> d.q, sticky |-> (d.r # 0) \/ (\E i \in 1..Len(low) : low[i] # 0)]

BigIsOdd(X) == Len(X) > 0 /\ X[1] % 2 = 1

RECURSIVE BigAddSmall(_, _)
BigAddSmall(X, c) ==
    IF c = 0 THEN X
    ELSE IF Len(X) = 0 THEN BigFromInt(c)
    ELSE LET t == X[1] + c IN <<t % LimbBase>> \o BigAddSmall(Tail(X), t \div LimbBase)

RECURSIVE BigCmpFrom(_, _, _)
BigCmpFrom(X, Y, i) ==
    IF i = 0 THEN 0
    ELSE IF X[i] < Y[i] THEN -1
    ELSE IF X[i] > Y[i] THEN 1
    ELSE BigCmpFrom(X, Y, i - 1)

\* -1, 0, 1 as X is below, equal to or above Y
BigCmp(X, Y) ==
    LET A == BigStrip(X)
        B == BigStrip(Y)
    IN IF Len(A) < Len(B) THEN -1
       ELSE IF Len(A) > Len(B) THEN 1
       ELSE BigCmpFrom(A, B, Len(A))

\* the binary64 nearest to X * 2^e (plus a non-zero tail when sticky), ties to even
FRound(X, e, sticky) ==
    LET L == BigBitLen(X)
    IN IF L = 0 THEN [m |-> << >>, e |-> 0]
       ELSE IF L <= MantissaBits
       THEN [m |-> BigShiftLeft(X, MantissaBits - L), e |-> e - (MantissaBits - L)]
       ELSE LET sh == L - MantissaBits
                g == BigShiftRight(X, sh - 1)
                m0 == BigShiftRight(g.q, 1).q
                up == BigIsOdd(g.q) /\ (g.sticky \/ sticky \/ BigIsOdd(m0))
                m1 == IF up THEN BigAddSmall(m0, 1) ELSE m0
            IN IF BigBitLen(m1) > MantissaBits
               THEN [m |-> BigShiftRight(m1, 1).q, e |-> e + sh + 1]
               ELSE [m |-> m1, e |-> e + sh]

\* float(n) for an integer n >= 0
FFromInt(n) == FRound(BigFromInt(n), 0, FALSE)

\* F * k for an integer-valued k
FMulInt(F, k) == FRound(BigMulSmall(F.m, k), F.e, FALSE)

\* F / k for an integer-valued k > 0
FDivInt(F, k) ==
    LET d == BigDivSmall(BigShiftLeft(F.m, DivGuardBits), k)
    IN FRound(d.q, F.e - DivGuardBits, d.r # 0)

\* sign of F - G
FCmp(F, G) ==
    IF Len(F.m) = 0 /\ Len(G.m) = 0 THEN 0
    ELSE IF Len(F.m) = 0 THEN -1
    ELSE IF Len(G.m) = 0 THEN 1
    ELSE IF F.e < G.e THEN -1
    ELSE IF F.e > G.e THEN 1
    ELSE BigCmp(F.m, G.m)

FMin(F, G) == IF FCmp(G, F) < 0 THEN G ELSE F

\* the float written as the decimal literal c/100
FOfCents(c) == FDivInt(FFromInt(c), 100)

\* the field f64 of a budget line whose float value is not tracked
NoF64 == [m |-> << >>, e |-> 0]

\* ------------------------------------------------------------------------
\* Knowledge base
\* ------------------------------------------------------------------------
Categories == {"pessoal", "material_consumo", "material_permanente",
               "despesas_administrativas", "reformas", "captacao_recursos", "auditoria"}

\* a knowledge base whose distribution maps carry no audit share
DistributionWithoutAudit(i, a) ==
    << <<"pessoal", 50>>, <<"material_consumo", 30>>, <<"material_permanente", 20>> >>

\* typical_budget_distribution, in percent, in the order the dict is written.
\* The enhanced service writes fractions (0.60 is 60 here).
BudgetDistribution(i, a) ==
    IF i = "backend" THEN
      CASE a = "QSS" -> << <<"material_permanente", 45>>, <<"reformas", 30>>, <<"material_consumo", 10>>,
                           <<"pessoal", 10>>, <<"auditoria", 3>>, <<"captacao_recursos", 2>> >>
        [] a = "RPD" -> << <<"pessoal", 60>>, <<"material_permanente", 20>>, <<"material_consumo", 10>>,
                           <<"despesas_administrativas", 5>>, <<"auditoria", 3>>, <<"captacao_recursos", 2>> >>
        [] a = "DDP" -> << <<"pessoal", 50>>, <<"material_permanente", 25>>, <<"material_consumo", 15>>,
                           <<"despesas_administrativas", 5>>, <<"auditoria", 3>>, <<"captacao_recursos", 2>> >>
        [] a = "EPD" -> << <<"pessoal", 55>>, <<"material_permanente", 20>>, <<"material_consumo", 15>>,
                           <<"despesas_administrativas", 5>>, <<"auditoria", 3>>, <<"captacao_recursos", 2>> >>
        [] a = "ITR" -> << <<"pessoal", 45>>, <<"material_permanente", 25>>, <<"material_consumo", 15>>,
                           <<"despesas_administrativas", 10>>, <<"auditoria", 3>>, <<"captacao_recursos", 2>> >>
        [] a = "APE" -> << <<"pessoal", 40>>, <<"material_permanente", 35>>, <<"material_consumo", 15>>,
                           <<"despesas_administrativas", 5>>, <<"auditoria", 3>>, <<"captacao_recursos", 2>> >>
        [] a = "TAA" -> << <<"pessoal", 50>>, <<"material_consumo", 25>>, <<"material_permanente", 15>>,
                           <<"despesas_administrativas", 5>>, <<"auditoria", 3>>, <<"captacao_recursos", 2>> >>
        [] a = "APC" -> << <<"pessoal", 45>>, <<"material_consumo", 30>>, <<"material_permanente", 15>>,
                           <<"despesas_administrativas", 5>>, <<"auditoria", 3>>, <<"captacao_recursos", 2>> >>
    ELSE
      CASE a = "QSS" -> << <<"reformas", 60>>, <<"material_permanente", 25>>,
                           <<"despesas_administrativas", 10>>, <<"auditoria", 5>> >>
        [] a = "RPD" -> << <<"pessoal", 50>>, <<"material_consumo", 20>>, <<"material_permanente", 15>>,
                           <<"despesas_administrativas", 10>>, <<"auditoria", 5>> >>
        [] a = "DDP" -> << <<"pessoal", 45>>, <<"material_consumo", 25>>, <<"material_permanente", 15>>,
                           <<"despesas_administrativas", 10>>, <<"auditoria", 5>> >>
        [] a = "EPD" -> << <<"pessoal", 55>>, <<"material_consumo", 20>>, <<"material_permanente", 10>>,
                           <<"despesas_administrativas", 10>>, <<"auditoria", 5>> >>
        [] a = "ITR" -> << <<"pessoal", 40>>, <<"material_consumo", 25>>, <<"material_permanente", 20>>,
                           <<"despesas_administrativas", 10>>, <<"auditoria", 5>> >>
        [] a = "APE" -> << <<"pessoal", 35>>, <<"material_consumo", 25>>, <<"material_permanente", 25>>,
                           <<"despesas_administrativas", 10>>, <<"auditoria", 5>> >>
        [] a = "TAA" -> << <<"pessoal", 40>>, <<"material_consumo", 30>>, <<"material_permanente", 15>>,
                           <<"despesas_administrativas", 10>>, <<"auditoria", 5>> >>
        [] a = "APC" -> << <<"pessoal", 40>>, <<"material_consumo", 30>>, <<"material_permanente", 15>>,
                           <<"despesas_administrativas", 10>>, <<"auditoria", 5>> >>

\* dict.get(category, 0) on a distribution
Percent(dist, c) ==
    IF \E k \in 1..Len(dist) : dist[k][1] = c
    THEN dist[CHOOSE k \in 1..Len(dist) : dist[k][1] = c][2]
    ELSE 0

\* team_salary_ranges: monthly salary range in reais and weekly hours
TeamSalaryRanges(c) ==
    CASE c = "coordenador"           -> [min |-> 8000,  max |-> 15000, hours_week |-> 20]
      [] c = "medico"                -> [min |-> 10000, max |-> 20000, hours_week |-> 20]
      [] c = "fisioterapeuta"        -> [min |-> 4000,  max |-> 8000,  hours_week |-> 30]
      [] c = "terapeuta_ocupacional" -> [min |-> 4000,  max |-> 8000,  hours_week |-> 30]
      [] c = "fonoaudiologo"         -> [min |-> 4000,  max |-> 8000,  hours_week |-> 30]
      [] c = "psicologo"             -> [min |-> 4000,  max |-> 8000,  hours_week |-> 30]
      [] c = "assistente_social"     -> [min |-> 3500,  max |-> 7000,  hours_week |-> 30]
      [] c = "enfermeiro"            -> [min |-> 4000,  max |-> 8000,  hours_week |-> 30]
      [] c = "educador_fisico"       -> [min |-> 3000,  max |-> 6000,  hours_week |-> 30]
      [] c = "arte_terapeuta"        -> [min |-> 3500,  max |-> 7000,  hours_week |-> 20]
      [] c = "musicoterapeuta"       -> [min |-> 3500,  max |-> 7000,  hours_week |-> 20]
      [] c = "instrutor"             -> [min |-> 2500,  max |-> 5000,  hours_week |-> 30]
      [] c = "auxiliar"              -> [min |-> 1800,  max |-> 3500,  hours_week |-> 40]

\* role_mapping.get(role_description, "instrutor")
RoleMapping(r) ==
    CASE r = "Coordenador do projeto" -> "coordenador"
      [] r \in {"Coordenador (medico fisiatra ou neurologista)", "Coordenador medico especialista",
                "Coordenador medico pediatra/neuropediatra",
                "Coordenador (medico do trabalho ou terapeuta ocupacional)",
                "Coordenador (medico do esporte ou educador fisico)", "Veterinario"} -> "medico"
      [] r \in {"Coordenador (psicologo ou terapeuta ocupacional)", "Psicologo", "Psicologo infantil",
                "Psicologo organizacional", "Psicologo do esporte"} -> "psicologo"
      [] r \in {"Coordenador (arte-terapeuta ou educador artistico)", "Terapeuta especializado em TAA",
                "Arte-terapeuta"} -> "arte_terapeuta"
      [] r \in {"Fisioterapeuta", "Fisioterapeuta pediatrico", "Fisioterapeuta esportivo"} -> "fisioterapeuta"
      [] r \in {"Terapeuta ocupacional", "Terapeuta ocupacional pediatrico"} -> "terapeuta_ocupacional"
      [] r \in {"Fonoaudiologo", "Fonoaudiologo pediatrico"} -> "fonoaudiologo"
      [] r = "Assistente social" -> "assistente_social"
      [] r = "Enfermeiro especializado" -> "enfermeiro"
      [] r = "Educador fisico especializado" -> "educador_fisico"
      [] r = "Musicoterapeuta" -> "musicoterapeuta"
      [] r = "Auxiliar de atividades" -> "auxiliar"
      [] OTHER -> "instrutor"

\* required_team_roles of the backend engine
RequiredTeamRoles(a) ==
    CASE a = "QSS" -> <<"Coordenador do projeto", "Arquiteto especialista em acessibilidade",
                        "Engenheiro civil", "Terapeuta ocupacional">>
      [] a = "RPD" -> <<"Coordenador (medico fisiatra ou neurologista)", "Fisioterapeuta",
                        "Terapeuta ocupacional", "Fonoaudiologo", "Psicologo", "Assistente social">>
      [] a = "DDP" -> <<"Coordenador medico especialista", "Neuropsicologo", "Psicologo",
                        "Fonoaudiologo", "Terapeuta ocupacional">>
      [] a = "EPD" -> <<"Coordenador medico pediatra/neuropediatra", "Fisioterapeuta pediatrico",
                        "Terapeuta ocupacional pediatrico", "Fonoaudiologo pediatrico",
                        "Psicologo infantil", "Enfermeiro especializado">>
      [] a = "ITR" -> <<"Coordenador (medico do trabalho ou terapeuta ocupacional)", "Terapeuta ocupacional",
                        "Psicologo organizacional", "Assistente social", "Instrutor profissionalizante">>
      [] a = "APE" -> <<"Coordenador (medico do esporte ou educador fisico)", "Educador fisico especializado",
                        "Fisioterapeuta esportivo", "Classificador funcional", "Psicologo do esporte">>
      [] a = "TAA" -> <<"Coordenador (psicologo ou terapeuta ocupacional)", "Terapeuta especializado em TAA",
                        "Condutor de animais certificado", "Veterinario", "Auxiliar de atividades">>
      [] a = "APC" -> <<"Coordenador (arte-terapeuta ou educador artistico)", "Musicoterapeuta",
                        "Arte-terapeuta", "Instrutor de danca adaptada", "Produtor cultural">>

\* area_teams of the enhanced service: role, weekly hours, monthly salary in reais
AreaTeams(a) ==
    CASE a = "QSS" -> << [role |-> "Arquiteto Especialista", hours |-> 20, salary |-> 8000],
                         [role |-> "Engenheiro", hours |-> 20, salary |-> 7000] >>
      [] a = "RPD" -> << [role |-> "Fisioterapeuta", hours |-> 40, salary |-> 6000],
                         [role |-> "Terapeuta Ocupacional", hours |-> 40, salary |-> 5500],
                         [role |-> "Fonoaudiologo", hours |-> 30, salary |-> 5000] >>
      [] a = "DDP" -> << [role |-> "Neuropsicologo", hours |-> 30, salary |-> 7000],
                         [role |-> "Medico Especialista", hours |-> 20, salary |-> 12000] >>
      [] a = "EPD" -> << [role |-> "Pediatra", hours |-> 20, salary |-> 10000],
                         [role |-> "Psicologo Infantil", hours |-> 40, salary |-> 6000] >>
      [] a = "ITR" -> << [role |-> "Pedagogo", hours |-> 40, salary |-> 5000],
                         [role |-> "Terapeuta Ocupacional", hours |-> 30, salary |-> 5500] >>
      [] a = "APE" -> << [role |-> "Educador Fisico", hours |-> 40, salary |-> 4500],
                         [role |-> "Fisioterapeuta", hours |-> 30, salary |-> 6000] >>
      [] a = "TAA" -> << [role |-> "Veterinario", hours |-> 20, salary |-> 6000],
                         [role |-> "Psicologo", hours |-> 30, salary |-> 5500] >>
      [] a = "APC" -> << [role |-> "Arteterapeuta", hours |-> 30, salary |-> 5000],
                         [role |-> "Musicoterapeuta", hours |-> 20, salary |-> 4500] >>

\* "coordenador" in role.lower(): the role labels of both engines that contain it
IsCoordinatorRole(r) ==
    r \in {"Coordenador do projeto", "Coordenador (medico fisiatra ou neurologista)",
           "Coordenador medico especialista", "Coordenador medico pediatra/neuropediatra",
           "Coordenador (medico do trabalho ou terapeuta ocupacional)",
           "Coordenador (medico do esporte ou educador fisico)",
           "Coordenador (psicologo ou terapeuta ocupacional)",
           "Coordenador (arte-terapeuta ou educador artistico)", "Coordenador Geral"}

\* equipment_catalog of the backend engine: unit price in reais and quantity
EquipmentCatalog(a) ==
    CASE a = "QSS" -> << [unit_price |-> 2500, quantity |-> 4], [unit_price |-> 8000, quantity |-> 2],
                         [unit_price |-> 15000, quantity |-> 1], [unit_price |-> 12000, quantity |-> 1],
                         [unit_price |-> 5000, quantity |-> 3], [unit_price |-> 3000, quantity |-> 2] >>
      [] a = "RPD" -> << [unit_price |-> 25000, quantity |-> 1], [unit_price |-> 8000, quantity |-> 2],
                         [unit_price |-> 35000, quantity |-> 1], [unit_price |-> 15000, quantity |-> 1],
                         [unit_price |-> 12000, quantity |-> 1], [unit_price |-> 8000, quantity |-> 2] >>
      [] a = "DDP" -> << [unit_price |-> 20000, quantity |-> 1], [unit_price |-> 15000, quantity |-> 1],
                         [unit_price |-> 25000, quantity |-> 1], [unit_price |-> 10000, quantity |-> 1],
                         [unit_price |-> 8000, quantity |-> 1] >>
      [] a = "EPD" -> << [unit_price |-> 8000, quantity |-> 2], [unit_price |-> 15000, quantity |-> 1],
                         [unit_price |-> 12000, quantity |-> 1], [unit_price |-> 10000, quantity |-> 1],
                         [unit_price |-> 6000, quantity |-> 2] >>
      [] a = "ITR" -> << [unit_price |-> 20000, quantity |-> 2], [unit_price |-> 15000, quantity |-> 1],
                         [unit_price |-> 12000, quantity |-> 2], [unit_price |-> 18000, quantity |-> 1],
                         [unit_price |-> 8000, quantity |-> 1] >>
      [] a = "APE" -> << [unit_price |-> 35000, quantity |-> 1], [unit_price |-> 15000, quantity |-> 2],
                         [unit_price |-> 12000, quantity |-> 3], [unit_price |-> 20000, quantity |-> 1],
                         [unit_price |-> 8000, quantity |-> 1] >>
      [] a = "TAA" -> << [unit_price |-> 8000, quantity |-> 1], [unit_price |-> 5000, quantity |-> 2],
                         [unit_price |-> 12000, quantity |-> 1], [unit_price |-> 6000, quantity |-> 1],
                         [unit_price |-> 15000, quantity |-> 1] >>
      [] a = "APC" -> << [unit_price |-> 15000, quantity |-> 1], [unit_price |-> 8000, quantity |-> 2],
                         [unit_price |-> 12000, quantity |-> 1], [unit_price |-> 6000, quantity |-> 1],
                         [unit_price |-> 10000, quantity |-> 1] >>

\* compliance_rules (the enhanced service keeps the same values under
\* validation_rules and budget_rules)
ComplianceRules ==
    [min_justification_length |-> 500,
     min_specific_objectives |-> 3,
     min_timeline_months |-> 6,
     max_timeline_months |-> 48,
     max_captacao_absolute |-> 50000,
     max_captacao_percentage_of_total |-> 5]

\* character counts of the generated texts when the institution name, city and
\* state are empty (the institution's fields only add to them); the backend
\* engine alone writes a sustainability plan
TextLengths(i, a) ==
    IF i = "backend" THEN
      CASE a = "QSS" -> [justification |-> 1615, methodology |-> 906, sustainability_plan |-> 1404, general_objective |-> 251]
        [] a = "RPD" -> [justification |-> 1653, methodology |-> 899, sustainability_plan |-> 1404, general_objective |-> 306]
        [] a = "DDP" -> [justification |-> 1583, methodology |-> 936, sustainability_plan |-> 1404, general_objective |-> 308]
        [] a = "EPD" -> [justification |-> 1558, methodology |-> 937, sustainability_plan |-> 1404, general_objective |-> 318]
        [] a = "ITR" -> [justification |-> 1626, methodology |-> 894, sustainability_plan |-> 1404, general_objective |-> 284]
        [] a = "APE" -> [justification |-> 1581, methodology |-> 919, sustainability_plan |-> 1404, general_objective |-> 318]
        [] a = "TAA" -> [justification |-> 1536, methodology |-> 909, sustainability_plan |-> 1404, general_objective |-> 327]
        [] a = "APC" -> [justification |-> 1568, methodology |-> 936, sustainability_plan |-> 1404, general_objective |-> 298]
    ELSE
      CASE a = "QSS" -> [justification |-> 2586, methodology |-> 1044, sustainability_plan |-> 0, general_objective |-> 253]
        [] a = "RPD" -> [justification |-> 2630, methodology |-> 1061, sustainability_plan |-> 0, general_objective |-> 239]
        [] a = "DDP" -> [justification |-> 2631, methodology |-> 1060, sustainability_plan |-> 0, general_objective |-> 219]
        [] a = "EPD" -> [justification |-> 2631, methodology |-> 1063, sustainability_plan |-> 0, general_objective |-> 236]
        [] a = "ITR" -> [justification |-> 2621, methodology |-> 1055, sustainability_plan |-> 0, general_objective |-> 222]
        [] a = "APE" -> [justification |-> 2620, methodology |-> 1056, sustainability_plan |-> 0, general_objective |-> 225]
        [] a = "TAA" -> [justification |-> 2568, methodology |-> 1040, sustainability_plan |-> 0, general_objective |-> 219]
        [] a = "APC" -> [justification |-> 2619, methodology |-> 1058, sustainability_plan |-> 0, general_objective |-> 220]

\* len of the text _generate_target_audience returns
TargetAudienceLength(i, a) ==
    IF i = "backend"
    THEN CASE a = "QSS" -> 767 [] a = "RPD" -> 778 [] a = "DDP" -> 783 [] a = "EPD" -> 772
           [] a = "ITR" -> 757 [] a = "APE" -> 790 [] a = "TAA" -> 763 [] a = "APC" -> 788
    ELSE CASE a = "QSS" -> 808 [] a = "RPD" -> 825 [] a = "DDP" -> 824 [] a = "EPD" -> 827
           [] a = "ITR" -> 819 [] a = "APE" -> 820 [] a = "TAA" -> 804 [] a = "APC" -> 822

\* len(objectives_bank[area]) of the backend engine
ObjectivesBankSize(a) == IF a = "QSS" THEN 6 ELSE 7

\* len(specific_objectives[area]) of the enhanced service
EnhancedObjectivesCount == 4

\* ------------------------------------------------------------------------
\* Projects of an institution: ProjectService and the /projects/ endpoints
\* ------------------------------------------------------------------------
\* rows the projects table may hold
MaxProjects == 5

\* rows followed through their analysis
MaxReviewed == 3

\* Institution.max_projects_allowed, Column(Integer, default=3)
MaxProjectsAllowed == 3

\* the institutions of the database: 1 holds a valid credential, 2 does not
InstitutionRows ==
    [id \in {1, 2} |-> [credential_valid |-> (id = 1),
                        max_projects_allowed |-> MaxProjectsAllowed,
                        active_projects_count |-> 0]]

\* the institution_id of a request; no row has id 3
InstitutionIds == {1, 2, 3}

\* an HTTP outcome: 201 with the created row, or HTTPException(status, detail),
\* the detail by what it tells and the maximum it names (0 when none)
HttpResponse(status_code, detail, maximum) ==
    [status_code |-> status_code, detail |-> detail, maximum |-> maximum]

NoResponse == HttpResponse(0, "", 0)

\* the requests one process serves at a time
Requests == {1, 2}

\* ------------------------------------------------------------------------
\* State
\* ------------------------------------------------------------------------
VARIABLES
    impl,               \* which PronasAIEngine serves the request
    priority_areas,     \* self.priority_areas[code]['typical_budget_distribution']
    area_code,          \* priority_area_code of the request
    budget_total,       \* project_requirements['budget_total'], reais
    timeline_months,    \* project_requirements['timeline_months']
    pc,                 \* position in generate_project_from_guidelines
    steps,              \* the steps that have run, in order
    structure,          \* result of _generate_project_structure
    team_members,       \* result of the team generator
    budget_items,       \* result of the budget generator
    timeline,           \* result of _generate_project_timeline
    goals,              \* result of _generate_project_goals
    project,            \* the assembled package
    validation_results, \* result of _validate_project_compliance
    compliance_score,   \* in units of 1/6000
    confidence_score,   \* in units of 1/6000
    recommendations,    \* result of _generate_recommendations
    response,           \* what generate_project_from_guidelines returned
    error,              \* the exception it raised, "" when none
    validation_again,   \* result of a second _validate_project_compliance on the same package
    drawn,              \* what random.sample delivers: the positions it draws from each bank, in draw order
    institutions,       \* the institutions table: id to credential validity, project limit and counter
    projects,           \* the projects table: institution_id and status of each row, by id
    http_response,      \* what the last project call returned or raised: status code and detail
    random_state,       \* random._inst, the generator behind the random module's functions: how many outputs it has given
    samples             \* per request, the random choices it has made: which choice, and which output of the generator it got

vars == <<impl, priority_areas, area_code, budget_total, timeline_months, pc, steps, structure,
          team_members, budget_items, timeline, goals, project, validation_results,
          compliance_score, confidence_score, recommendations, response, error, validation_again, drawn, institutions, projects, http_response, random_state, samples>>

\* Python's None, and a value that is set: lists of length 0 and 1
None == << >>
Some(x) == << x >>

\* ------------------------------------------------------------------------
\* Staffing
\* ------------------------------------------------------------------------
\* the values random.uniform(min, max) is sampled at, in reais
SalarySamples(info) ==
    {info.min + (k * (info.max - info.min)) \div SalaryLevels : k \in 0..SalaryLevels}

\* round(n / d), half to even
RoundDiv(n, d) ==
    LET q == n \div d
        r == n % d
    IN IF 2 * r < d THEN q
       ELSE IF 2 * r > d THEN q + 1
       ELSE IF q % 2 = 0 THEN q ELSE q + 1

\* The loop of _generate_specialized_team from role i on, remaining_budget in
\* centavos: the set of team lists it can append.  x24 is monthly_salary * 24
\* before rounding.  After a clipped salary the code's remaining_budget is 0 up
\* to float error; a positive error only lets later roles be skipped, as here.
RECURSIVE SpecializedTeamFrom(_, _, _)
SpecializedTeamFrom(roles, i, remaining) ==
    IF i > Len(roles) THEN {<< >>}
    ELSE LET info == TeamSalaryRanges(RoleMapping(roles[i]))
         IN UNION { LET x24 == Min2(24 * Cents(s), remaining)
                        member == [role |-> roles[i],
                                   weekly_hours |-> info.hours_week,
                                   monthly_salary |-> RoundDiv(x24, 24)]
                    IN IF x24 < 12 * Cents(info.min)
                       THEN SpecializedTeamFrom(roles, i + 1, remaining)
                       ELSE IF remaining - x24 <= 0
                       THEN {<<member>>}
                       ELSE {<<member>> \o t : t \in SpecializedTeamFrom(roles, i + 1, remaining - x24)}
                  : s \in SalarySamples(info) }

\* _generate_specialized_team (backend): the teams it can return
SpecializedTeams(dist, a, total) ==
    SpecializedTeamFrom(RequiredTeamRoles(a), 1, total * Percent(dist, "pessoal"))

\* _generate_project_team (enhanced): salaries in centavos
ProjectTeam(a) ==
    << [role |-> "Coordenador Geral", weekly_hours |-> 20, monthly_salary |-> Cents(10000)] >>
    \o [k \in 1..Len(AreaTeams(a)) |->
          [role |-> AreaTeams(a)[k].role, weekly_hours |-> AreaTeams(a)[k].hours,
           monthly_salary |-> Cents(AreaTeams(a)[k].salary)]]
    \o << [role |-> "Assistente Administrativo", weekly_hours |-> 40, monthly_salary |-> Cents(2500)] >>

\* ------------------------------------------------------------------------
\* Budget
\* ------------------------------------------------------------------------
\* one budget line; total_value in centavos, f64 the float behind it where the
\* model tracks it
Item(category, subcategory, quantity, total_value) ==
    [category |-> category, subcategory |-> subcategory, quantity |-> quantity,
     total_value |-> total_value, f64 |-> NoF64]

\* the personnel lines of _generate_detailed_budget: salary * 24
PersonnelItems(team) ==
    [k \in 1..Len(team) |-> Item("pessoal", team[k].role, 24, team[k].monthly_salary * 24)]

\* the loop of _generate_equipment_items from catalogue entry i on
RECURSIVE EquipmentItemsFrom(_, _, _)
EquipmentItemsFrom(catalog, i, remaining) ==
    IF i > Len(catalog) \/ remaining <= 0 THEN << >>
    ELSE LET total_cost == Cents(catalog[i].unit_price * catalog[i].quantity)
         IN IF total_cost <= remaining
            THEN <<Item("material_permanente", "Equipamento", catalog[i].quantity, total_cost)>>
                 \o EquipmentItemsFrom(catalog, i + 1, remaining - total_cost)
            ELSE EquipmentItemsFrom(catalog, i + 1, remaining)

EquipmentItems(a, budget) == EquipmentItemsFrom(EquipmentCatalog(a), 1, budget)

\* _generate_consumable_items: budget * 0.3 and budget * 0.7
ConsumableItems(budget) ==
    << Item("material_consumo", "Material de escritorio", 24, RoundDiv(budget * 3, 10)),
       Item("material_consumo", "Material especifico da area", 24, RoundDiv(budget * 7, 10)) >>

\* _generate_reform_items
ReformItems(budget) == << Item("reformas", "Adequacao de acessibilidade", 200, budget) >>

\* _generate_administrative_items: budget * 0.4 and budget * 0.6
AdministrativeItems(budget) ==
    << Item("despesas_administrativas", "Comunicacao e internet", 24, RoundDiv(budget * 4, 10)),
       Item("despesas_administrativas", "Transporte e combustivel", 24, RoundDiv(budget * 6, 10)) >>

\* an audit line of 2% of the total
AuditBudgetTwoPercent(total) == Max2(total * 2, Cents(5000))

\* audit_budget = max(total_budget * 0.03, 5000), in centavos
AuditBudget(total) == Max2(total * 3, Cents(5000))

\* captacao_percentage = min(5, (50000 / total_budget) * 100), as a float
CaptacaoPercentage(total) ==
    FMin(FFromInt(ComplianceRules.max_captacao_percentage_of_total),
         FMulInt(FDivInt(FFromInt(ComplianceRules.max_captacao_absolute), total), 100))

\* captacao_budget = total_budget * (captacao_percentage / 100), as a float
CaptacaoBudget(total) == FMulInt(FDivInt(CaptacaoPercentage(total), 100), total)

\* the fundraising line: its float and the centavos nearest to it
CaptacaoItem(total) ==
    [Item("captacao_recursos", "Captacao de Recursos", 1,
          IF FCmp(CaptacaoPercentage(total), FFromInt(ComplianceRules.max_captacao_percentage_of_total)) < 0
          THEN Cents(ComplianceRules.max_captacao_absolute)
          ELSE total * ComplianceRules.max_captacao_percentage_of_total)
     EXCEPT !.f64 = CaptacaoBudget(total)]

\* _generate_detailed_budget (backend); total in reais, category budgets in centavos
DetailedBudget(dist, a, total, team) ==
    PersonnelItems(team)
    \o (IF Percent(dist, "material_permanente") > 0
        THEN EquipmentItems(a, total * Percent(dist, "material_permanente")) ELSE << >>)
    \o (IF Percent(dist, "material_consumo") > 0
        THEN ConsumableItems(total * Percent(dist, "material_consumo")) ELSE << >>)
    \o (IF Percent(dist, "reformas") > 0
        THEN ReformItems(total * Percent(dist, "reformas")) ELSE << >>)
    \o (IF Percent(dist, "despesas_administrativas") > 0
        THEN AdministrativeItems(total * Percent(dist, "despesas_administrativas")) ELSE << >>)
    \o << Item("auditoria", "Auditoria Independente", 1, AuditBudget(total)) >>
    \o << CaptacaoItem(total) >>

\* the audit share the enhanced service injects into a map that has none, in percent
InjectedAuditPercent == 5

\* an audit guard that injects the share and leaves the other shares as they were
InjectWithoutRescale(dist) ==
    IF \E k \in 1..Len(dist) : dist[k][1] = "auditoria" THEN dist
    ELSE dist \o << <<"auditoria", InjectedAuditPercent>> >>

\* the "auditoria" guard of _generate_project_budget (enhanced): a map without
\* an audit entry gets one and the others are rescaled (to whole percents here);
\* the map is the knowledge base's own dict, so the result is written back
NormalizeDistribution(dist) ==
    IF \E k \in 1..Len(dist) : dist[k][1] = "auditoria" THEN dist
    ELSE LET total == SumSeq([k \in 1..Len(dist) |-> dist[k][2]]) + InjectedAuditPercent
         IN [k \in 1..Len(dist) |->
                <<dist[k][1], (dist[k][2] * (100 - InjectedAuditPercent)) \div (total - InjectedAuditPercent)>>]
            \o << <<"auditoria", InjectedAuditPercent>> >>

\* the cost of the coordinator line of the enhanced service: 24 * 10000.00
CoordinationCost == Cents(240000)

\* the lines _generate_project_budget (enhanced) adds for one category
CategoryItems(category, category_total) ==
    CASE category = "pessoal" ->
           << Item("pessoal", "Coordenacao", 24, CoordinationCost) >>
           \o (IF category_total - CoordinationCost > 0
               THEN << Item("pessoal", "Equipe Tecnica", 24, category_total - CoordinationCost) >>
               ELSE << >>)
      [] category = "material_consumo" -> << Item("material_consumo", "None", 24, category_total) >>
      [] category = "material_permanente" -> << Item("material_permanente", "None", 1, category_total) >>
      [] category = "despesas_administrativas" -> << Item("despesas_administrativas", "None", 24, category_total) >>
      [] category = "reformas" ->
           IF category_total > 0 THEN << Item("reformas", "None", 1, category_total) >> ELSE << >>
      [] category = "auditoria" -> << Item("auditoria", "None", 1, category_total) >>
      [] OTHER -> << >>

RECURSIVE ProjectBudgetFrom(_, _, _)
ProjectBudgetFrom(dist, i, total) ==
    IF i > Len(dist) THEN << >>
    ELSE CategoryItems(dist[i][1], total * dist[i][2]) \o ProjectBudgetFrom(dist, i + 1, total)

\* _generate_project_budget (enhanced) on the normalised map
ProjectBudget(dist, total) == ProjectBudgetFrom(NormalizeDistribution(dist), 1, total)

\* sum(item.total_value) over the lines of one category, centavos
CategoryTotal(items, c) ==
    SumSeq([k \in 1..Len(items) |-> IF items[k].category = c THEN items[k].total_value ELSE 0])

\* sum(item.total_value) over all lines, centavos
ItemsTotal(items) == SumSeq([k \in 1..Len(items) |-> items[k].total_value])

\* ------------------------------------------------------------------------
\* Timeline
\* ------------------------------------------------------------------------
Phase(start_month, end_month) == [start_month |-> start_month, end_month |-> end_month]

\* a second phase that starts in month 3 in both branches
SecondStartOverlapping(d) == 3

\* the month the second phase of the backend timeline starts, by branch
BackendSecondStart(d) == IF d > 12 THEN 4 ELSE 3

\* _generate_project_timeline (backend): three phases in both branches
BackendTimeline(d) ==
    IF d > 12
    THEN << Phase(1, 3), Phase(BackendSecondStart(d), d - 3), Phase(d - 2, d) >>
    ELSE << Phase(1, 2), Phase(BackendSecondStart(d), d - 1), Phase(d, d) >>

\* a first phase of at least one month instead of two
PhaseDurationsFromOne(d) == << Max2(1, d \div 8), d \div 3, d \div 3, d \div 4 >>

\* the "duration" entries of the four standard phases of the enhanced service
PhaseDurations(d) == << Max2(2, d \div 8), d \div 3, d \div 3, d \div 4 >>

\* the loop of _generate_project_timeline (enhanced) from phase i on
RECURSIVE EnhancedTimelineFrom(_, _, _)
EnhancedTimelineFrom(d, i, current_month) ==
    IF i > Len(PhaseDurations(d)) THEN << >>
    ELSE LET end_month == current_month + PhaseDurations(d)[i] - 1
         IN << Phase(current_month, Min2(end_month, d)) >>
            \o (IF end_month + 1 > d THEN << >> ELSE EnhancedTimelineFrom(d, i + 1, end_month + 1))

EnhancedTimeline(d) == EnhancedTimelineFrom(d, 1, 1)

ProjectTimeline(i, d) == IF i = "backend" THEN BackendTimeline(d) ELSE EnhancedTimeline(d)

\* ProjectTimelineCreate accepts the phase: both months >= 1, end_month >= start_month
PhaseAccepted(ph) == ph.start_month >= 1 /\ ph.end_month >= 1 /\ ph.end_month >= ph.start_month

\* ------------------------------------------------------------------------
\* Goals and narrative structure
\* ------------------------------------------------------------------------
\* goals without the table of the areas: the two common indicators alone
CommonGoalsOnly(i, a) ==
    <<"Taxa de satisfacao dos usuarios", "Numero de beneficiarios atendidos">>

\* the indicator names of the goals each engine writes for an area
ProjectGoals(i, a) ==
    IF i = "backend" THEN
      CASE a = "QSS" -> <<"Numero de pessoas atendidas mensalmente",
                          "Percentual de satisfacao dos usuarios",
                          "Percentual de adequacao de acessibilidade">>
        [] a = "RPD" -> <<"Numero de pessoas em reabilitacao",
                          "Percentual de melhoria funcional",
                          "Taxa de adesao ao tratamento">>
        [] a = "DDP" -> <<"Numero de diagnosticos realizados",
                          "Tempo medio para diagnostico (dias)",
                          "Percentual de diagnosticos precoces">>
        [] a = "EPD" -> <<"Numero de criancas em estimulacao precoce",
                          "Percentual de melhoria do desenvolvimento",
                          "Taxa de engajamento familiar">>
        [] a = "ITR" -> <<"Numero de pessoas capacitadas",
                          "Taxa de insercao no mercado de trabalho",
                          "Percentual de manutencao no emprego">>
        [] a = "APE" -> <<"Numero de praticantes regulares",
                          "Melhoria do condicionamento fisico",
                          "Participacao em competicoes">>
        [] a = "TAA" -> <<"Numero de pessoas em TAA",
                          "Melhoria da comunicacao",
                          "Reducao de ansiedade">>
        [] a = "APC" -> <<"Numero de participantes nas oficinas",
                          "Producoes artisticas realizadas",
                          "Melhoria da autoestima">>
    ELSE
      <<"Taxa de satisfacao dos usuarios", "Numero de beneficiarios atendidos">>
      \o (CASE a = "QSS" -> <<"Percentual de adequacao as normas de acessibilidade">>
            [] a = "RPD" -> <<"Taxa de melhoria funcional">>
            [] a = "DDP" -> <<"Tempo medio para diagnostico">>
            [] OTHER -> << >>)

\* random.choices in place of random.sample: the first draw may come again
SampleWithReplacement(order, k) == [n \in 1..k |-> order[1]]

\* random.sample(bank, k) when the generator draws the positions of order
RandomSample(order, k) == SubSeq(order, 1, k)

\* one outcome of the generator: every sample in the order of its bank
FirstDraws == [area |-> <<1, 2, 3>>, general |-> <<1, 2>>, objectives |-> <<1, 2, 3, 4, 5>>]

\* random.randint(2, ...) in place of random.randint(3, ...)
ObjectiveCountsFromTwo(i, a) ==
    IF i = "backend" THEN 2..Min2(5, ObjectivesBankSize(a)) ELSE {EnhancedObjectivesCount}

\* the numbers of specific objectives the structure generator can write
ObjectiveCounts(i, a) ==
    IF i = "backend"
    THEN ComplianceRules.min_specific_objectives..Min2(5, ObjectivesBankSize(a))
    ELSE {EnhancedObjectivesCount}

\* the specific objectives by their positions in the area's bank: the backend
\* engine returns random.sample(available_objectives, n), the enhanced service
\* the area's whole list
SpecificObjectives(i, n, order) ==
    IF i = "backend" THEN RandomSample(order, n) ELSE [k \in 1..n |-> k]

\* _generate_project_structure: the texts by their lengths, the objectives by
\* their positions in the bank, and the request's budget and duration
ProjectStructure(i, a, objectives, total, d) ==
    [priority_area |-> a,
     target_audience |-> TargetAudienceLength(i, a),
     justification |-> TextLengths(i, a).justification,
     methodology |-> TextLengths(i, a).methodology,
     sustainability_plan |-> TextLengths(i, a).sustainability_plan,
     general_objective |-> TextLengths(i, a).general_objective,
     specific_objectives |-> objectives,
     budget_total |-> total,
     timeline_months |-> d]

\* the package: the structure with the four generated lists
Package(st, team, items, tl, gs) ==
    [priority_area |-> st.priority_area,
     target_audience |-> st.target_audience,
     justification |-> st.justification,
     methodology |-> st.methodology,
     sustainability_plan |-> st.sustainability_plan,
     general_objective |-> st.general_objective,
     specific_objectives |-> st.specific_objectives,
     budget_total |-> st.budget_total,
     timeline_months |-> st.timeline_months,
     team_members |-> team,
     budget_items |-> items,
     timeline |-> tl,
     goals |-> gs]

\* ------------------------------------------------------------------------
\* Validator
\* ------------------------------------------------------------------------
\* a validator message: the check it belongs to and the number its text names
\* (0 when the text names none)
Message(check, bound) == [check |-> check, bound |-> bound]

\* a warning that clears the validity flag as an error does
AddWarningInvalidating(r, m) == [r EXCEPT !.warnings = Append(@, m), !.is_valid = FALSE]

\* an error list that outlives the call: the first error of a run is appended
\* to what an earlier run on this engine left
AddErrorToKeptList(r, m) ==
    [r EXCEPT !.errors = Append(IF Len(@) = 0 /\ Len(validation_results) = 1
                                THEN validation_results[1].errors ELSE @, m),
              !.is_valid = FALSE]

AddError(r, m) == [r EXCEPT !.errors = Append(@, m), !.is_valid = FALSE]
AddWarning(r, m) == [r EXCEPT !.warnings = Append(@, m)]

HasCategory(items, c) == \E k \in 1..Len(items) : items[k].category = c

\* max_allowed = min(max_captacao_absolute, total_budget * (percentage / 100)), as a float
MaxCaptacaoAllowed(total) ==
    FMin(FFromInt(ComplianceRules.max_captacao_absolute),
         FMulInt(FDivInt(FFromInt(ComplianceRules.max_captacao_percentage_of_total), 100), total))

\* captacao_total > max_allowed on floats; packages here carry at most one
\* fundraising line, whose float is then the sum
CaptacaoExceeds(items, total) ==
    \E k \in 1..Len(items) :
        /\ items[k].category = "captacao_recursos"
        /\ FCmp(items[k].f64, MaxCaptacaoAllowed(total)) > 0

\* a duration check whose bounds are themselves rejected
DurationErrorsInclusive(d) ==
    (IF d <= ComplianceRules.min_timeline_months
     THEN << Message("timeline_months", ComplianceRules.min_timeline_months) >> ELSE << >>)
    \o (IF d >= ComplianceRules.max_timeline_months
        THEN << Message("timeline_months", ComplianceRules.max_timeline_months) >> ELSE << >>)

\* the duration check of both validators: the messages for timeline_months
\* below the minimum and above the maximum, each naming its bound
DurationErrors(d) ==
    (IF d < ComplianceRules.min_timeline_months
     THEN << Message("timeline_months", ComplianceRules.min_timeline_months) >> ELSE << >>)
    \o (IF d > ComplianceRules.max_timeline_months
        THEN << Message("timeline_months", ComplianceRules.max_timeline_months) >> ELSE << >>)

\* the margin of the backend's budget consistency check, reais
BudgetMargin == 100

\* _validate_project_compliance (backend): is_valid is cleared with each error
BackendValidate(p) ==
    LET ErrorIf(c, r, m) == IF c THEN AddError(r, m) ELSE r
        WarningIf(c, r, m) == IF c THEN AddWarning(r, m) ELSE r
        DurationIf(r, ms) == IF Len(ms) > 0 THEN [r EXCEPT !.errors = @ \o ms, !.is_valid = FALSE] ELSE r
        r0 == [is_valid |-> TRUE, errors |-> << >>, warnings |-> << >>]
        r1 == ErrorIf(p.justification < ComplianceRules.min_justification_length,
                      r0, Message("justification", ComplianceRules.min_justification_length))
        r2 == ErrorIf(Len(p.specific_objectives) < ComplianceRules.min_specific_objectives,
                      r1, Message("specific_objectives", ComplianceRules.min_specific_objectives))
        r3 == DurationIf(r2, DurationErrors(p.timeline_months))
        r4 == ErrorIf(~HasCategory(p.budget_items, "auditoria"), r3, Message("auditoria", 0))
        r5 == ErrorIf(CaptacaoExceeds(p.budget_items, p.budget_total),
                      r4, Message("captacao_recursos", ComplianceRules.max_captacao_absolute))
        r6 == WarningIf(Len(p.team_members) < 2, r5, Message("team_members", 2))
        r7 == ErrorIf(Abs(ItemsTotal(p.budget_items) - Cents(p.budget_total)) > Cents(BudgetMargin),
                      r6, Message("budget_total", 0))
    IN WarningIf(Len(p.goals) < 2, r7, Message("goals", 2))

\* errors.append of the enhanced validator, which sets is_valid only at the end
AppendError(r, m) == [r EXCEPT !.errors = Append(@, m)]

\* _validate_project_compliance (enhanced); the 0.01 margin is one centavo
EnhancedValidate(p) ==
    LET ErrorIf(c, r, m) == IF c THEN AppendError(r, m) ELSE r
        Finish(r) == [r EXCEPT !.is_valid = (Len(r.errors) = 0)]
        r0 == [is_valid |-> TRUE, errors |-> << >>, warnings |-> << >>]
        r1 == ErrorIf(p.justification < ComplianceRules.min_justification_length,
                      r0, Message("justification", ComplianceRules.min_justification_length))
        r2 == ErrorIf(Len(p.specific_objectives) < ComplianceRules.min_specific_objectives,
                      r1, Message("specific_objectives", ComplianceRules.min_specific_objectives))
        r3 == [r2 EXCEPT !.errors = @ \o DurationErrors(p.timeline_months)]
        r4 == ErrorIf(Len(p.budget_items) > 0
                         /\ Abs(ItemsTotal(p.budget_items) - Cents(p.budget_total)) > 1,
                      r3, Message("budget_total", 0))
        r5 == ErrorIf(Len(p.budget_items) > 0 /\ ~HasCategory(p.budget_items, "auditoria"),
                      r4, Message("auditoria", 0))
        r6 == ErrorIf(Len(p.team_members) > 0
                         /\ ~\E k \in 1..Len(p.team_members) : IsCoordinatorRole(p.team_members[k].role),
                      r5, Message("coordenador", 0))
    IN Finish(r6)

ValidateProjectCompliance(i, p) == IF i = "backend" THEN BackendValidate(p) ELSE EnhancedValidate(p)

\* ProjectCreate(...) of the enhanced service raises: the duration bounds of
\* ProjectBase, validate_budget_consistency (the service writes no fundraising
\* line, so its third check is never entered) and the timeline rules
AssembleRejects(st, items, tl) ==
    \/ st.timeline_months < ComplianceRules.min_timeline_months
    \/ st.timeline_months > ComplianceRules.max_timeline_months
    \/ st.budget_total <= 0
    \/ st.justification < ComplianceRules.min_justification_length
    \/ Len(st.specific_objectives) < ComplianceRules.min_specific_objectives
    \/ (Len(items) > 0 /\ Abs(ItemsTotal(items) - Cents(st.budget_total)) > 1)
    \/ (Len(items) > 0 /\ ~HasCategory(items, "auditoria"))
    \/ Len(tl) < 3
    \/ \E k \in 1..Len(tl) : tl[k].end_month > st.timeline_months

\* ------------------------------------------------------------------------
\* Scores, in units of 1/6000 (6000 is 1.0), and recommendations
\* ------------------------------------------------------------------------
BoolToNat(b) == IF b THEN 1 ELSE 0

\* the bonuses of the backend's _calculate_compliance_score
ComplianceBonuses(p) ==
    BoolToNat(p.sustainability_plan > 200) + BoolToNat(p.methodology > 300)
    + BoolToNat(Len(p.team_members) >= 4)

\* _calculate_compliance_score (backend):
\* min(1, max(0, 1 - 0.15 * errors - 0.05 * warnings) + bonus)
BackendComplianceScore(p, r) ==
    60 * Min2(100, Max2(0, 100 - 15 * Len(r.errors) - 5 * Len(r.warnings)) + 5 * ComplianceBonuses(p))

\* passed_checks of the enhanced _calculate_compliance_score: ten conditions
PassedChecks(p, r) ==
    BoolToNat(p.justification >= 500)
    + BoolToNat(Len(p.specific_objectives) >= 3)
    + BoolToNat(6 <= p.timeline_months /\ p.timeline_months <= 48)
    + BoolToNat(HasCategory(p.budget_items, "auditoria"))
    + BoolToNat(\E k \in 1..Len(p.team_members) : IsCoordinatorRole(p.team_members[k].role))
    + BoolToNat(Len(p.goals) >= 2)
    + BoolToNat(Len(p.timeline) >= 3)
    + BoolToNat(r.is_valid)
    + BoolToNat(p.budget_total > 0)
    + BoolToNat(p.general_objective >= 50)

\* a score over twelve checks instead of ten
ComplianceScoreOverTwelve(p, r) == 500 * PassedChecks(p, r)

\* _calculate_compliance_score (enhanced): passed_checks / 10
EnhancedComplianceScore(p, r) == 600 * PassedChecks(p, r)

CalculateComplianceScore(i, p, r) ==
    IF i = "backend" THEN BackendComplianceScore(p, r) ELSE EnhancedComplianceScore(p, r)

\* _calculate_confidence_score (backend): weights 0.25, 0.2, 0.2, 0.2, 0.15 on
\* area alignment 0.9, completeness (of 8 fields; title and general objective
\* are always written), budget quality, team adequacy and timeline viability
BackendConfidenceScore(p) ==
    LET completed == 2 + BoolToNat(Len(p.specific_objectives) > 0) + BoolToNat(p.justification > 0)
                     + BoolToNat(p.methodology > 0) + BoolToNat(Len(p.team_members) > 0)
                     + BoolToNat(Len(p.budget_items) > 0) + BoolToNat(Len(p.goals) > 0)
        budget_quality == IF Len(p.budget_items) = 0 THEN 360
                          ELSE IF HasCategory(p.budget_items, "pessoal")
                                  /\ HasCategory(p.budget_items, "auditoria") THEN 1080 ELSE 720
        required_roles == Len(RequiredTeamRoles(p.priority_area))
        team_adequacy == Min2(1200, (1200 * Len(p.team_members)) \div Max2(1, required_roles))
        timeline_viability == IF 6 <= p.timeline_months /\ p.timeline_months <= 48 THEN 810 ELSE 450
    IN Min2(6000, Max2(0, 1350 + 150 * completed + budget_quality + team_adequacy + timeline_viability))

\* a scorer that takes 0.05 off when the duration is outside [6, 48]
ConfidenceWithDurationTest(p) ==
    Min2(6000, 4800 - 300 * BoolToNat(p.timeline_months < 6 \/ p.timeline_months > 48)
               + 300 * (BoolToNat(Len(p.team_members) >= 3) + BoolToNat(Len(p.budget_items) >= 5)
                        + BoolToNat(Len(p.goals) >= 2) + BoolToNat(Len(p.timeline) >= 4)))

\* a scorer that starts from 0.7 instead of 0.8
ConfidenceFromSeventy(p) ==
    Min2(6000, 4200 + 300 * (BoolToNat(Len(p.team_members) >= 3) + BoolToNat(Len(p.budget_items) >= 5)
                             + BoolToNat(Len(p.goals) >= 2) + BoolToNat(Len(p.timeline) >= 4)))

\* _calculate_confidence_score (enhanced): 0.8 plus 0.05 per completeness test
EnhancedConfidenceScore(p) ==
    Min2(6000, 4800 + 300 * (BoolToNat(Len(p.team_members) >= 3) + BoolToNat(Len(p.budget_items) >= 5)
                             + BoolToNat(Len(p.goals) >= 2) + BoolToNat(Len(p.timeline) >= 4)))

CalculateConfidenceScore(i, p) ==
    IF i = "backend" THEN BackendConfidenceScore(p) ELSE EnhancedConfidenceScore(p)

\* len(area_recommendations[area_code]): three per area in the backend engine,
\* one for QSS, RPD and DDP and none for the others in the enhanced service
AreaBankSize(i, a) ==
    IF i = "backend" THEN 3 ELSE IF a \in {"QSS", "RPD", "DDP"} THEN 1 ELSE 0

\* len(general_recommendations) of the backend engine
GeneralBankSize == 6

\* an entry of the recommendations list: its kind, the bank it was taken from
\* ("" for a message) and its position in that bank (0 for a message)
Recommendation(kind, bank, item) == [kind |-> kind, bank |-> bank, item |-> item]

\* _generate_recommendations. The backend adds one entry on errors, one on
\* warnings, min(3, len) sampled from the area's bank and two sampled from the
\* general bank; the enhanced service one on errors, one for a justification
\* under 1000 characters, one for an empty target audience, one when budget
\* items exist without a fundraising line, and the area's bank if it has one
GenerateRecommendations(i, p, r, d) ==
    LET a == p.priority_area
        message(on, kind) == IF on THEN << Recommendation(kind, "", 0) >> ELSE << >>
        area_sample == RandomSample(d.area, Min2(3, AreaBankSize(i, a)))
        general_sample == RandomSample(d.general, 2)
    IN IF i = "backend"
       THEN message(Len(r.errors) > 0, "errors")
            \o message(Len(r.warnings) > 0, "warnings")
            \o [k \in 1..Len(area_sample) |-> Recommendation("area", a, area_sample[k])]
            \o [k \in 1..Len(general_sample) |-> Recommendation("general", "general", general_sample[k])]
       ELSE message(Len(r.errors) > 0, "errors")
            \o message(p.justification < 1000, "justification")
            \o message(p.target_audience = 0, "target_audience")
            \o message(Len(p.budget_items) > 0 /\ ~HasCategory(p.budget_items, "captacao_recursos"),
                       "captacao_recursos")
            \o [k \in 1..AreaBankSize(i, a) |-> Recommendation("area", a, k)]

\* ------------------------------------------------------------------------
\* generate_project_from_guidelines, one action per step
\* ------------------------------------------------------------------------
\* an area check that lets every code through
KnownAreaUnchecked(a) == TRUE

\* priority_area_code in self.priority_areas
KnownArea(a) == a \in DOMAIN priority_areas

\* the engine after construction, no call in progress
Init ==
    /\ impl \in Impls
    /\ priority_areas = [a \in AreaCodes |-> BudgetDistribution(impl, a)]
    /\ area_code = ""
    /\ budget_total = 0
    /\ timeline_months = 0
    /\ pc = "idle"
    /\ steps = << >>
    /\ structure = None
    /\ team_members = << >>
    /\ budget_items = << >>
    /\ timeline = << >>
    /\ goals = << >>
    /\ project = None
    /\ validation_results = None
    /\ compliance_score = None
    /\ confidence_score = None
    /\ recommendations = << >>
    /\ response = None
    /\ error = ""
    /\ validation_again = None
    /\ drawn = FirstDraws
    /\ institutions = InstitutionRows
    /\ projects = << >>
    /\ http_response = NoResponse
    /\ random_state = 0
    /\ samples = [r \in Requests |-> << >>]

\* a caller invokes generate_project_from_guidelines
Call ==
    /\ pc = "idle"
    /\ area_code' \in AreaCodes \cup UnknownCodes
    /\ budget_total' \in Budgets
    /\ timeline_months' \in RequestDurations
    /\ pc' = "check_area"
    /\ UNCHANGED <<samples, random_state, http_response, projects, institutions, drawn, validation_again, impl, priority_areas, steps, structure, team_members, budget_items, timeline,
                   goals, project, validation_results, compliance_score, confidence_score,
                   recommendations, response, error>>

\* the exception leaves generate_project_from_guidelines: nothing is returned
Raise(e) ==
    /\ error' = e
    /\ pc' = "failed"

\* a pipeline that assembles the package right after the budget
AssembleAfterBudget == "assemble"

\* the step after the budget and after the timeline differ between the engines
AfterBudget == IF impl = "backend" THEN "timeline" ELSE "goals"
AfterTimeline == IF impl = "backend" THEN "goals" ELSE "assemble"
AfterGoals == IF impl = "backend" THEN "assemble" ELSE "timeline"

CheckArea ==
    /\ pc = "check_area"
    /\ IF KnownArea(area_code)
       THEN pc' = "structure" /\ error' = error
       ELSE Raise("ValueError")
    /\ UNCHANGED <<samples, random_state, http_response, projects, institutions, drawn, validation_again, impl, priority_areas, area_code, budget_total, timeline_months, steps, structure,
                   team_members, budget_items, timeline, goals, project, validation_results,
                   compliance_score, confidence_score, recommendations, response>>

GenerateStructure ==
    /\ pc = "structure"
    /\ \E n \in ObjectiveCounts(impl, area_code) :
          structure' = Some(ProjectStructure(impl, area_code,
                                             SpecificObjectives(impl, n, drawn.objectives),
                                             budget_total, timeline_months))
    /\ steps' = Append(steps, "structure")
    /\ pc' = "team"
    /\ UNCHANGED <<samples, random_state, http_response, projects, institutions, drawn, validation_again, impl, priority_areas, area_code, budget_total, timeline_months,
                   team_members, budget_items, timeline, goals, project, validation_results,
                   compliance_score, confidence_score, recommendations, response, error>>

GenerateTeam ==
    /\ pc = "team"
    /\ IF impl = "backend"
       THEN team_members' \in SpecializedTeams(priority_areas[area_code], area_code, budget_total)
       ELSE team_members' = ProjectTeam(area_code)
    /\ steps' = Append(steps, "team")
    /\ pc' = "budget"
    /\ UNCHANGED <<samples, random_state, http_response, projects, institutions, drawn, validation_again, impl, priority_areas, area_code, budget_total, timeline_months, structure,
                   budget_items, timeline, goals, project, validation_results,
                   compliance_score, confidence_score, recommendations, response, error>>

GenerateBudget ==
    /\ pc = "budget"
    /\ IF impl = "backend"
       THEN /\ budget_items' = DetailedBudget(priority_areas[area_code], area_code, budget_total, team_members)
            /\ priority_areas' = priority_areas
       ELSE /\ budget_items' = ProjectBudget(priority_areas[area_code], budget_total)
            /\ priority_areas' = [priority_areas EXCEPT ![area_code] = NormalizeDistribution(@)]
    /\ steps' = Append(steps, "budget")
    /\ pc' = AfterBudget
    /\ UNCHANGED <<samples, random_state, http_response, projects, institutions, drawn, validation_again, impl, area_code, budget_total, timeline_months, structure, team_members,
                   timeline, goals, project, validation_results,
                   compliance_score, confidence_score, recommendations, response, error>>

GenerateTimeline ==
    /\ pc = "timeline"
    /\ steps' = Append(steps, "timeline")
    /\ IF impl = "enhanced" /\ \E k \in 1..Len(ProjectTimeline(impl, timeline_months)) :
                                  ~PhaseAccepted(ProjectTimeline(impl, timeline_months)[k])
       THEN Raise("ValidationError") /\ timeline' = timeline
       ELSE /\ timeline' = ProjectTimeline(impl, timeline_months)
            /\ pc' = AfterTimeline
            /\ error' = error
    /\ UNCHANGED <<samples, random_state, http_response, projects, institutions, drawn, validation_again, impl, priority_areas, area_code, budget_total, timeline_months, structure,
                   team_members, budget_items, goals, project, validation_results,
                   compliance_score, confidence_score, recommendations, response>>

GenerateGoals ==
    /\ pc = "goals"
    /\ goals' = ProjectGoals(impl, area_code)
    /\ steps' = Append(steps, "goals")
    /\ pc' = AfterGoals
    /\ UNCHANGED <<samples, random_state, http_response, projects, institutions, drawn, validation_again, impl, priority_areas, area_code, budget_total, timeline_months, structure,
                   team_members, budget_items, timeline, project, validation_results,
                   compliance_score, confidence_score, recommendations, response, error>>

\* step 6: the backend merges dicts; the enhanced service builds a ProjectCreate,
\* whose validators can raise
Assemble ==
    /\ pc = "assemble"
    /\ IF impl = "enhanced" /\ AssembleRejects(structure[1], budget_items, timeline)
       THEN Raise("ValidationError") /\ project' = project
       ELSE /\ project' = Some(Package(structure[1], team_members, budget_items, timeline, goals))
            /\ pc' = "validate"
            /\ error' = error
    /\ UNCHANGED <<samples, random_state, http_response, projects, institutions, drawn, validation_again, impl, priority_areas, area_code, budget_total, timeline_months, steps, structure,
                   team_members, budget_items, timeline, goals, validation_results,
                   compliance_score, confidence_score, recommendations, response>>

Validate ==
    /\ pc = "validate"
    /\ validation_results' = Some(ValidateProjectCompliance(impl, project[1]))
    /\ steps' = Append(steps, "validate")
    /\ pc' = "compliance_score"
    /\ UNCHANGED <<samples, random_state, http_response, projects, institutions, drawn, validation_again, impl, priority_areas, area_code, budget_total, timeline_months, structure,
                   team_members, budget_items, timeline, goals, project,
                   compliance_score, confidence_score, recommendations, response, error>>

ScoreCompliance ==
    /\ pc = "compliance_score"
    /\ compliance_score' = Some(CalculateComplianceScore(impl, project[1], validation_results[1]))
    /\ steps' = Append(steps, "compliance_score")
    /\ pc' = "confidence_score"
    /\ UNCHANGED <<samples, random_state, http_response, projects, institutions, drawn, validation_again, impl, priority_areas, area_code, budget_total, timeline_months, structure,
                   team_members, budget_items, timeline, goals, project, validation_results,
                   confidence_score, recommendations, response, error>>

ScoreConfidence ==
    /\ pc = "confidence_score"
    /\ confidence_score' = Some(CalculateConfidenceScore(impl, project[1]))
    /\ steps' = Append(steps, "confidence_score")
    /\ pc' = "recommendations"
    /\ UNCHANGED <<samples, random_state, http_response, projects, institutions, drawn, validation_again, impl, priority_areas, area_code, budget_total, timeline_months, structure,
                   team_members, budget_items, timeline, goals, project, validation_results,
                   compliance_score, recommendations, response, error>>

Recommend ==
    /\ pc = "recommendations"
    /\ recommendations' = GenerateRecommendations(impl, project[1], validation_results[1], drawn)
    /\ steps' = Append(steps, "recommendations")
    /\ pc' = "respond"
    /\ UNCHANGED <<samples, random_state, http_response, projects, institutions, drawn, validation_again, impl, priority_areas, area_code, budget_total, timeline_months, structure,
                   team_members, budget_items, timeline, goals, project, validation_results,
                   compliance_score, confidence_score, response, error>>

\* the return statement: the package with its validation, scores and advice
Respond ==
    /\ pc = "respond"
    /\ response' = Some([project |-> project[1],
                         confidence_score |-> confidence_score[1],
                         compliance_score |-> compliance_score[1],
                         recommendations |-> recommendations,
                         validation_results |-> validation_results[1]])
    /\ pc' = "done"
    /\ UNCHANGED <<samples, random_state, http_response, projects, institutions, drawn, validation_again, impl, priority_areas, area_code, budget_total, timeline_months, steps, structure,
                   team_members, budget_items, timeline, goals, project, validation_results,
                   compliance_score, confidence_score, recommendations, error>>

\* the call is over and its locals are gone; the engine object lives on with
\* the knowledge base the call left
Return ==
    /\ pc \in {"done", "failed"}
    /\ area_code' = ""
    /\ budget_total' = 0
    /\ timeline_months' = 0
    /\ pc' = "idle"
    /\ steps' = << >>
    /\ structure' = None
    /\ team_members' = << >>
    /\ budget_items' = << >>
    /\ timeline' = << >>
    /\ goals' = << >>
    /\ project' = None
    /\ validation_results' = None
    /\ compliance_score' = None
    /\ confidence_score' = None
    /\ recommendations' = << >>
    /\ response' = None
    /\ error' = ""
    /\ UNCHANGED <<samples, random_state, http_response, projects, institutions, drawn, validation_again, impl, priority_areas>>

Next ==
    \/ Call
    \/ CheckArea
    \/ GenerateStructure
    \/ GenerateTeam
    \/ GenerateBudget
    \/ GenerateTimeline
    \/ GenerateGoals
    \/ Assemble
    \/ Validate
    \/ ScoreCompliance
    \/ ScoreConfidence
    \/ Recommend
    \/ Respond
    \/ Return

Spec == Init /\ [][Next]_vars

\* ------------------------------------------------------------------------
\* Project creation and submission
\* ------------------------------------------------------------------------
\* the rows of the institution whose status is one of the given
ProjectsIn(id, statuses) ==
    {k \in 1..Len(projects) : projects[k].institution_id = id /\ projects[k].status \in statuses}

\* Project(..., status=ProjectStatus.DRAFT) added to the session
DraftProject(id) == [institution_id |-> id, status |-> "draft", submission_date |-> None]

\* ProjectService.create_project: the institution, its credential, the limit
\* on SUBMITTED, UNDER_REVIEW, APPROVED and IN_EXECUTION rows, the business
\* rules of the request, then the new DRAFT row and the institution's counter
CreateProject ==
    /\ pc = "idle"
    /\ \E id \in InstitutionIds, rules_valid \in BOOLEAN :
         LET active_projects ==
                 Cardinality(ProjectsIn(id, {"submitted", "under_review", "approved", "in_execution"}))
         IN IF id \notin DOMAIN institutions
            THEN /\ http_response' = HttpResponse(404, "institution", 0)
                 /\ UNCHANGED <<samples, random_state, projects, institutions>>
            ELSE IF ~institutions[id].credential_valid
            THEN /\ http_response' = HttpResponse(400, "credential", 0)
                 /\ UNCHANGED <<samples, random_state, projects, institutions>>
            ELSE IF active_projects >= institutions[id].max_projects_allowed
            THEN /\ http_response' = HttpResponse(400, "maximum", institutions[id].max_projects_allowed)
                 /\ UNCHANGED <<samples, random_state, projects, institutions>>
            ELSE IF ~rules_valid
            THEN /\ http_response' = HttpResponse(400, "rules", 0)
                 /\ UNCHANGED <<samples, random_state, projects, institutions>>
            ELSE /\ Len(projects) < MaxProjects
                 /\ projects' = Append(projects, DraftProject(id))
                 /\ institutions' = [institutions EXCEPT ![id].active_projects_count = @ + 1]
                 /\ http_response' = HttpResponse(201, "", 0)
    /\ UNCHANGED <<samples, random_state, impl, priority_areas, area_code, budget_total, timeline_months, pc, steps,
                   structure, team_members, budget_items, timeline, goals, project,
                   validation_results, compliance_score, confidence_score, recommendations,
                   response, error, validation_again, drawn>>

\* POST /projects/ of main.py: the institution, its credential status, the
\* limit on SUBMITTED rows, then create_project_db
PostProject ==
    /\ pc = "idle"
    /\ \E id \in InstitutionIds :
         IF id \notin DOMAIN institutions
         THEN /\ http_response' = HttpResponse(404, "institution", 0)
              /\ projects' = projects
         ELSE IF ~institutions[id].credential_valid
         THEN /\ http_response' = HttpResponse(400, "credential", 0)
              /\ projects' = projects
         ELSE IF Cardinality(ProjectsIn(id, {"submitted"})) >= MaxProjectsAllowed
         THEN /\ http_response' = HttpResponse(400, "maximum", MaxProjectsAllowed)
              /\ projects' = projects
         ELSE /\ Len(projects) < MaxProjects
              /\ projects' = Append(projects, DraftProject(id))
              /\ http_response' = HttpResponse(201, "", 0)
    /\ UNCHANGED <<samples, random_state, impl, priority_areas, area_code, budget_total, timeline_months, pc, steps,
                   structure, team_members, budget_items, timeline, goals, project,
                   validation_results, compliance_score, confidence_score, recommendations,
                   response, error, validation_again, drawn, institutions>>

\* submit_project: a DRAFT row that is complete becomes SUBMITTED and gets its
\* submission_date
SubmitProject ==
    /\ pc = "idle"
    /\ \E project_id \in 1..MaxProjects, complete \in BOOLEAN :
         IF project_id > Len(projects)
         THEN /\ http_response' = HttpResponse(404, "project", 0)
              /\ projects' = projects
         ELSE IF projects[project_id].status # "draft"
         THEN /\ http_response' = HttpResponse(400, "status", 0)
              /\ projects' = projects
         ELSE IF ~complete
         THEN /\ http_response' = HttpResponse(400, "incomplete", 0)
              /\ projects' = projects
         ELSE /\ projects' = [projects EXCEPT ![project_id].status = "submitted",
                                              ![project_id].submission_date = Some("utcnow")]
              /\ http_response' = HttpResponse(200, "", 0)
    /\ UNCHANGED <<samples, random_state, impl, priority_areas, area_code, budget_total, timeline_months, pc, steps,
                   structure, team_members, budget_items, timeline, goals, project,
                   validation_results, compliance_score, confidence_score, recommendations,
                   response, error, validation_again, drawn, institutions>>

\* the analysis of the ministry opens on a SUBMITTED row: the step between
\* SUBMITTED ("Submetido ao MS") and UNDER_REVIEW ("Em análise") of the status
\* flow, written to the row by the reviewers and by no operation of the service
BeginReview ==
    /\ pc = "idle"
    /\ \E project_id \in 1..Len(projects) :
         /\ projects[project_id].status = "submitted"
         /\ projects' = [projects EXCEPT ![project_id].status = "under_review"]
    /\ UNCHANGED <<samples, random_state, impl, priority_areas, area_code, budget_total, timeline_months, pc, steps,
                   structure, team_members, budget_items, timeline, goals, project,
                   validation_results, compliance_score, confidence_score, recommendations,
                   response, error, validation_again, drawn, institutions, http_response>>

\* approve_project accepting a row the analysis has not opened on
ApproveSubmitted ==
    /\ pc = "idle"
    /\ \E project_id \in 1..MaxProjects :
         IF project_id > Len(projects)
         THEN /\ http_response' = HttpResponse(500, "project", 0)
              /\ projects' = projects
         ELSE IF projects[project_id].status \notin {"submitted", "under_review"}
         THEN /\ http_response' = HttpResponse(400, "status", 0)
              /\ projects' = projects
         ELSE /\ projects' = [projects EXCEPT ![project_id].status = "approved"]
              /\ http_response' = HttpResponse(200, "", 0)
    /\ UNCHANGED <<samples, random_state, impl, priority_areas, area_code, budget_total, timeline_months, pc, steps,
                   structure, team_members, budget_items, timeline, goals, project,
                   validation_results, compliance_score, confidence_score, recommendations,
                   response, error, validation_again, drawn, institutions>>

\* approve_project: a row UNDER_REVIEW becomes APPROVED, any other status is a
\* 400; a missing row is None and reading its status raises, a 500
ApproveProject ==
    /\ pc = "idle"
    /\ \E project_id \in 1..MaxProjects :
         IF project_id > Len(projects)
         THEN /\ http_response' = HttpResponse(500, "project", 0)
              /\ projects' = projects
         ELSE IF projects[project_id].status # "under_review"
         THEN /\ http_response' = HttpResponse(400, "status", 0)
              /\ projects' = projects
         ELSE /\ projects' = [projects EXCEPT ![project_id].status = "approved"]
              /\ http_response' = HttpResponse(200, "", 0)
    /\ UNCHANGED <<samples, random_state, impl, priority_areas, area_code, budget_total, timeline_months, pc, steps,
                   structure, team_members, budget_items, timeline, goals, project,
                   validation_results, compliance_score, confidence_score, recommendations,
                   response, error, validation_again, drawn, institutions>>

\* reject_project: a row UNDER_REVIEW becomes REJECTED and its institution's
\* counter goes down, never under 0; any other status is a 400
RejectProject ==
    /\ pc = "idle"
    /\ \E project_id \in 1..MaxProjects :
         IF project_id > Len(projects)
         THEN /\ http_response' = HttpResponse(500, "project", 0)
              /\ UNCHANGED <<projects, institutions>>
         ELSE IF projects[project_id].status # "under_review"
         THEN /\ http_response' = HttpResponse(400, "status", 0)
              /\ UNCHANGED <<projects, institutions>>
         ELSE /\ projects' = [projects EXCEPT ![project_id].status = "rejected"]
              /\ institutions' =
                     [institutions EXCEPT ![projects[project_id].institution_id].active_projects_count =
                                              IF @ - 1 > 0 THEN @ - 1 ELSE 0]
              /\ http_response' = HttpResponse(200, "", 0)
    /\ UNCHANGED <<samples, random_state, impl, priority_areas, area_code, budget_total, timeline_months, pc, steps,
                   structure, team_members, budget_items, timeline, goals, project,
                   validation_results, compliance_score, confidence_score, recommendations,
                   response, error, validation_again, drawn>>

NextP ==
    \/ CreateProject
    \/ PostProject
    \/ SubmitProject

SpecP == Init /\ [][NextP]_vars

\* the life of the projects POST /projects/ has created: submission, the
\* opening of the analysis, approval and rejection
SpecS ==
    /\ Init
    /\ [][\/ (PostProject /\ Len(projects) < MaxReviewed)
           \/ SubmitProject
           \/ BeginReview
           \/ ApproveProject
           \/ RejectProject]_vars

\* ------------------------------------------------------------------------
\* The validator and the scorers on packages a caller hands in
\* ------------------------------------------------------------------------
\* the budget of the hand-made packages, reais
HandBudget == 500000

\* a package both validators accept when its duration is in range: the one the
\* enhanced service writes for area QSS
SoundPackage(d) ==
    Package(ProjectStructure("enhanced", "QSS", [k \in 1..EnhancedObjectivesCount |-> k], HandBudget, d),
            ProjectTeam("QSS"),
            ProjectBudget(BudgetDistribution("enhanced", "QSS"), HandBudget),
            EnhancedTimeline(Max2(d, 1)),
            ProjectGoals("enhanced", "QSS"))

\* one fundraising line of the given centavos, its float the literal's
HandCaptacaoItem(c) ==
    [Item("captacao_recursos", "Captacao de Recursos", 1, c) EXCEPT !.f64 = FOfCents(c)]

Defects == {"none", "short_justification", "few_objectives", "no_audit", "no_budget_items",
            "captacao_over", "no_coordinator", "no_team", "one_goal", "two_phases",
            "short_texts", "zero_budget", "no_target_audience"}

\* the sound package with one thing wrong
HandPackage(d, defect) ==
    LET p == SoundPackage(d)
    IN CASE defect = "none" -> p
         [] defect = "short_justification" -> [p EXCEPT !.justification = 499]
         [] defect = "few_objectives" -> [p EXCEPT !.specific_objectives = SubSeq(@, 1, 2)]
         [] defect = "no_audit" ->
              [p EXCEPT !.budget_items = SelectSeq(@, LAMBDA it : it.category # "auditoria")]
         [] defect = "no_budget_items" -> [p EXCEPT !.budget_items = << >>]
         [] defect = "captacao_over" ->
              [p EXCEPT !.budget_items = Append(@, HandCaptacaoItem(Cents(30000)))]
         [] defect = "no_coordinator" -> [p EXCEPT !.team_members = Tail(@)]
         [] defect = "no_team" -> [p EXCEPT !.team_members = << >>]
         [] defect = "one_goal" -> [p EXCEPT !.goals = SubSeq(@, 1, 1)]
         [] defect = "two_phases" -> [p EXCEPT !.timeline = SubSeq(@, 1, Min2(2, Len(@)))]
         [] defect = "short_texts" -> [p EXCEPT !.methodology = 100, !.general_objective = 49]
         [] defect = "zero_budget" -> [p EXCEPT !.budget_total = 0]
         [] defect = "no_target_audience" -> [p EXCEPT !.target_audience = 0]

InitV ==
    /\ impl \in Impls
    /\ priority_areas = [a \in AreaCodes |-> BudgetDistribution(impl, a)]
    /\ area_code = "QSS"
    /\ budget_total = HandBudget
    /\ timeline_months \in 0..MaxDuration
    /\ pc = "validate"
    /\ steps = << >>
    /\ structure = None
    /\ team_members = << >>
    /\ budget_items = << >>
    /\ timeline = << >>
    /\ goals = << >>
    /\ \E defect \in Defects : project = Some(HandPackage(timeline_months, defect))
    /\ validation_results = None
    /\ compliance_score = None
    /\ confidence_score = None
    /\ recommendations = << >>
    /\ response = None
    /\ error = ""
    /\ validation_again = None
    /\ drawn = FirstDraws
    /\ institutions = InstitutionRows
    /\ projects = << >>
    /\ http_response = NoResponse
    /\ random_state = 0
    /\ samples = [r \in Requests |-> << >>]

\* _validate_project_compliance called a second time on the package it has
\* just validated
ValidateAgain ==
    /\ pc = "compliance_score"
    /\ validation_again = None
    /\ validation_again' = Some(ValidateProjectCompliance(impl, project[1]))
    /\ UNCHANGED <<samples, random_state, http_response, projects, institutions, drawn, impl, priority_areas, area_code, budget_total, timeline_months, pc, steps,
                   structure, team_members, budget_items, timeline, goals, project,
                   validation_results, compliance_score, confidence_score, recommendations,
                   response, error>>

NextV ==
    \/ Validate
    \/ ValidateAgain
    \/ ScoreCompliance
    \/ ScoreConfidence
    \/ Recommend

SpecV == InitV /\ [][NextV]_vars

\* ------------------------------------------------------------------------
\* The recommendation generator on hand-made packages of every area, with
\* every draw random.sample can deliver
\* ------------------------------------------------------------------------
\* the sequences of k distinct positions of a bank of n
Draws(n, k) == {q \in [1..k -> 1..n] : \A x, y \in 1..k : x # y => q[x] # q[y]}

InitR ==
    /\ impl \in Impls
    /\ priority_areas = [a \in AreaCodes |-> BudgetDistribution(impl, a)]
    /\ area_code \in AreaCodes
    /\ budget_total = HandBudget
    /\ timeline_months \in {3, 24}
    /\ pc = "recommendations"
    /\ steps = << >>
    /\ structure = None
    /\ team_members = << >>
    /\ budget_items = << >>
    /\ timeline = << >>
    /\ goals = << >>
    /\ \E defect \in Defects :
          project = Some([HandPackage(timeline_months, defect) EXCEPT !.priority_area = area_code])
    /\ validation_results = Some(ValidateProjectCompliance(impl, project[1]))
    /\ compliance_score = Some(CalculateComplianceScore(impl, project[1], validation_results[1]))
    /\ confidence_score = Some(CalculateConfidenceScore(impl, project[1]))
    /\ recommendations = << >>
    /\ response = None
    /\ error = ""
    /\ validation_again = None
    /\ \E x \in Draws(AreaBankSize("backend", area_code), 3), y \in Draws(GeneralBankSize, 2) :
          drawn = [FirstDraws EXCEPT !.area = x, !.general = y]
    /\ institutions = InstitutionRows
    /\ projects = << >>
    /\ http_response = NoResponse
    /\ random_state = 0
    /\ samples = [r \in Requests |-> << >>]

NextR == Recommend

SpecR == InitR /\ [][NextR]_vars

\* ------------------------------------------------------------------------
\* The structure generator for every area, with every draw random.sample
\* can deliver from the area's bank of objectives
\* ------------------------------------------------------------------------
InitO ==
    /\ impl \in Impls
    /\ priority_areas = [a \in AreaCodes |-> BudgetDistribution(impl, a)]
    /\ area_code \in AreaCodes
    /\ budget_total = HandBudget
    /\ timeline_months = 24
    /\ pc = "structure"
    /\ steps = << >>
    /\ structure = None
    /\ team_members = << >>
    /\ budget_items = << >>
    /\ timeline = << >>
    /\ goals = << >>
    /\ project = None
    /\ validation_results = None
    /\ compliance_score = None
    /\ confidence_score = None
    /\ recommendations = << >>
    /\ response = None
    /\ error = ""
    /\ validation_again = None
    /\ IF impl = "backend"
       THEN \E x \in Draws(ObjectivesBankSize(area_code), 5) : drawn = [FirstDraws EXCEPT !.objectives = x]
       ELSE drawn = FirstDraws
    /\ institutions = InstitutionRows
    /\ projects = << >>
    /\ http_response = NoResponse
    /\ random_state = 0
    /\ samples = [r \in Requests |-> << >>]

NextO == GenerateStructure

SpecO == InitO /\ [][NextO]_vars

\* ------------------------------------------------------------------------
\* The budget step on knowledge bases whose map may lack the audit share
\* ------------------------------------------------------------------------
\* the maps the audit guard of the enhanced service is given for an area: the
\* area's own, the area's own with the audit entry taken out, and two maps of
\* two shares; all of them rescale to whole percents
DistributionsOffered(i, a) ==
    IF i = "backend" THEN {BudgetDistribution(i, a)}
    ELSE {BudgetDistribution(i, a),
          SelectSeq(BudgetDistribution(i, a), LAMBDA e : e[1] # "auditoria"),
          << <<"pessoal", 60>>, <<"material_consumo", 40>> >>,
          << <<"pessoal", 30>>, <<"material_permanente", 20>> >>}

InitN ==
    /\ impl \in Impls
    /\ area_code \in AreaCodes
    /\ \E m \in DistributionsOffered(impl, area_code) :
          priority_areas = [a \in AreaCodes |->
                               IF a = area_code THEN m ELSE BudgetDistribution(impl, a)]
    /\ budget_total \in Budgets
    /\ timeline_months = 24
    /\ pc = "budget"
    /\ steps = << >>
    /\ structure = None
    /\ team_members \in (IF impl = "backend"
                           THEN SpecializedTeams(priority_areas[area_code], area_code, budget_total)
                           ELSE {ProjectTeam(area_code)})
    /\ budget_items = << >>
    /\ timeline = << >>
    /\ goals = << >>
    /\ project = None
    /\ validation_results = None
    /\ compliance_score = None
    /\ confidence_score = None
    /\ recommendations = << >>
    /\ response = None
    /\ error = ""
    /\ validation_again = None
    /\ drawn = FirstDraws
    /\ institutions = InstitutionRows
    /\ projects = << >>
    /\ http_response = NoResponse
    /\ random_state = 0
    /\ samples = [r \in Requests |-> << >>]

SpecN == InitN /\ [][GenerateBudget]_vars

\* ------------------------------------------------------------------------
\* Two requests served by one process, and the random module they share
\* ------------------------------------------------------------------------
\* the random calls of one backend request, in the order it makes them:
\* random.choice of the title, random.randint and random.sample of the
\* objectives, random.uniform of a salary, random.sample of the recommendations
RandomChoices == <<"title", "objectives", "salary", "recommendations">>

InitG ==
    /\ Init
    /\ impl = "backend"

\* one random.* call of request r: the module's single generator gives its
\* next output and moves on
Sample(r) ==
    /\ Len(samples[r]) < Len(RandomChoices)
    /\ samples' = [samples EXCEPT ![r] =
                      Append(@, [choice |-> RandomChoices[Len(@) + 1], output |-> random_state + 1])]
    /\ random_state' = random_state + 1
    /\ UNCHANGED <<impl, priority_areas, area_code, budget_total, timeline_months, pc, steps,
                   structure, team_members, budget_items, timeline, goals, project,
                   validation_results, compliance_score, confidence_score, recommendations,
                   response, error, validation_again, drawn, institutions, projects, http_response>>

SpecG == InitG /\ [][\E r \in Requests : Sample(r)]_vars

\* ------------------------------------------------------------------------
\* The timeline builders on every duration up to MaxDuration
\* ------------------------------------------------------------------------
InitT ==
    /\ impl \in Impls
    /\ priority_areas = [a \in AreaCodes |-> BudgetDistribution(impl, a)]
    /\ area_code \in AreaCodes
    /\ budget_total = HandBudget
    /\ timeline_months \in 1..MaxDuration
    /\ pc = "timeline"
    /\ steps = << >>
    /\ structure = None
    /\ team_members = << >>
    /\ budget_items = << >>
    /\ timeline = << >>
    /\ goals = << >>
    /\ project = None
    /\ validation_results = None
    /\ compliance_score = None
    /\ confidence_score = None
    /\ recommendations = << >>
    /\ response = None
    /\ error = ""
    /\ validation_again = None
    /\ drawn = FirstDraws
    /\ institutions = InstitutionRows
    /\ projects = << >>
    /\ http_response = NoResponse
    /\ random_state = 0
    /\ samples = [r \in Requests |-> << >>]

NextT == GenerateTimeline

SpecT == InitT /\ [][NextT]_vars

\* ------------------------------------------------------------------------
\* Properties
\* ------------------------------------------------------------------------
\* generate_project_from_guidelines has returned a package
Returned == pc = "done"

DurationInRange == timeline_months >= 6 /\ timeline_months <= 48

\* what a clipped fundraising line falls short of 5% of the total, centavos
ClippedExcess(items, total) ==
    IF HasCategory(items, "captacao_recursos") /\ total * 5 > Cents(50000)
    THEN total * 5 - CategoryTotal(items, "captacao_recursos")
    ELSE 0

\* C1: whenever a package is returned for a duration in [6,48], its budget
\* lines sum to total_budget within 0.01, less the clipped excess when the
\* fundraising line was clipped to its cap.
C1_BudgetSumsToTotal ==
    (Returned /\ DurationInRange) =>
        LET items == response[1].project.budget_items
        IN Abs(ItemsTotal(items) - (Cents(budget_total) - ClippedExcess(items, budget_total))) <= 1

\* the audit lines of a budget
AuditItems(items) == SelectSeq(items, LAMBDA it : it.category = "auditoria")

\* C2 as stated: a returned package has exactly one audit line, worth at
\* least 5% of total_budget.
C2_AuditAtLeastFivePercent ==
    Returned =>
        LET audit == AuditItems(response[1].project.budget_items)
        IN Len(audit) = 1 /\ audit[1].total_value >= budget_total * 5

\* C2 as the code has it: a returned package has exactly one audit line,
\* worth at least 3% of total_budget.
C2_AuditAtLeastThreePercent ==
    Returned =>
        LET audit == AuditItems(response[1].project.budget_items)
        IN Len(audit) = 1 /\ audit[1].total_value >= budget_total * 3

\* a backend package whose audit line is exactly 3% of the total
C2_Witness ==
    /\ Returned
    /\ impl = "backend"
    /\ AuditItems(response[1].project.budget_items)[1].total_value = budget_total * 3

\* C3: the fundraising lines of a returned package never exceed
\* min(0.05 * total_budget, 50000).
C3_FundraisingWithinCap ==
    Returned => ~CaptacaoExceeds(response[1].project.budget_items, budget_total)

\* C4: the validator finds no error in a package the generator returned for a
\* known area and a duration in [6,48].
C4_GeneratedPackageIsValid ==
    (Returned /\ DurationInRange) =>
        /\ response[1].validation_results.errors = << >>
        /\ response[1].validation_results.is_valid

\* the coordinator of the area: the first required role of the backend engine
\* at its category's minimum, the fixed 10000.00 of the enhanced service
CoordinatorMinimum(i, a) ==
    IF i = "backend" THEN TeamSalaryRanges(RoleMapping(RequiredTeamRoles(a)[1])).min ELSE 10000

\* the personnel share of the total cannot pay the coordinator's minimum for 24 months
CoordinatorUnfunded ==
    /\ area_code \in AreaCodes
    /\ budget_total * Percent(priority_areas[area_code], "pessoal")
         < 24 * Cents(CoordinatorMinimum(impl, area_code))

\* C5: when the personnel share cannot fund the coordinator, the call fails
\* with a budget-insufficient error once staffing has run and returns no
\* package.
C5_UnfundedCoordinatorFails ==
    (CoordinatorUnfunded /\ pc \notin {"idle", "check_area", "structure", "team"}) =>
        /\ pc = "failed"
        /\ error = "BudgetInsufficientError"
        /\ response = None

\* C6: the team of a returned package has exactly one coordinator-type
\* member, and it is the first of the list.
C6_OneCoordinatorFirst ==
    Returned =>
        LET team == response[1].project.team_members
        IN /\ Len(team) > 0
           /\ IsCoordinatorRole(team[1].role)
           /\ \A k \in 2..Len(team) : ~IsCoordinatorRole(team[k].role)

\* C7: a call with an area code outside the eight fails with the unknown-area
\* ValueError before any generator step runs; no package, no scores.
C7_UnknownAreaFailsFirst ==
    (pc \notin {"idle", "check_area"} /\ area_code \notin AreaCodes) =>
        /\ pc = "failed"
        /\ error = "ValueError"
        /\ steps = << >>
        /\ structure = None
        /\ project = None
        /\ compliance_score = None
        /\ confidence_score = None
        /\ response = None

\* a call with an unknown code that has failed
C7_Witness == pc = "failed" /\ area_code \in UnknownCodes /\ error = "ValueError"

\* the validator has run
Validated == Len(validation_results) = 1

\* the validator's messages of the duration check that name the given bound
DurationMessages(bound) ==
    SelectSeq(validation_results[1].errors,
              LAMBDA m : m.check = "timeline_months" /\ m.bound = bound)

\* C8: the duration check adds no error for 6..48; below 6 it adds an error
\* naming 6 months, above 48 one naming 48 months, and the package is invalid.
C8_DurationCheckNamesBound ==
    Validated =>
        LET d == project[1].timeline_months
        IN /\ (d >= 6 /\ d <= 48) =>
                \A k \in 1..Len(validation_results[1].errors) :
                    validation_results[1].errors[k].check # "timeline_months"
           /\ d < 6 => (Len(DurationMessages(6)) = 1 /\ ~validation_results[1].is_valid)
           /\ d > 48 => (Len(DurationMessages(48)) = 1 /\ ~validation_results[1].is_valid)

\* an otherwise sound package of 49 months, found invalid for the 48-month bound only
C8_Witness ==
    /\ Validated
    /\ project[1].timeline_months = 49
    /\ validation_results[1].errors = << Message("timeline_months", 48) >>
    /\ ~validation_results[1].is_valid

\* the timeline builder has run
TimelineBuilt == pc \notin {"timeline", "failed"} /\ Len(timeline) > 0

\* C9: for a duration in [6,48] the first phase starts at month 1, every
\* phase has 1 <= start_month <= end_month <= duration, and each later phase
\* starts the month after the one before it ends.
C9_TimelineContiguous ==
    (TimelineBuilt /\ DurationInRange) =>
        /\ timeline[1].start_month = 1
        /\ \A k \in 1..Len(timeline) :
              /\ 1 <= timeline[k].start_month
              /\ timeline[k].start_month <= timeline[k].end_month
              /\ timeline[k].end_month <= timeline_months
        /\ \A k \in 2..Len(timeline) : timeline[k].start_month = timeline[k - 1].end_month + 1

\* a 13-month backend timeline, the shortest of the long branch
C9_Witness ==
    /\ TimelineBuilt
    /\ impl = "backend"
    /\ timeline_months = 13
    /\ timeline = << Phase(1, 3), Phase(4, 10), Phase(11, 13) >>

\* the compliance scorer has run
Scored == Len(compliance_score) = 1

CompletenessSignals(p) ==
    BoolToNat(Len(p.team_members) >= 3) + BoolToNat(Len(p.budget_items) >= 5)
    + BoolToNat(Len(p.goals) >= 2) + BoolToNat(Len(p.timeline) >= 4)

SampledShape(rec, r, a, n) ==
    LET e == BoolToNat(Len(r.errors) > 0)
        w == BoolToNat(Len(r.warnings) > 0)
        m == Min2(3, n)
    IN /\ Len(rec) = e + w + m + 2
       /\ e = 1 => rec[1] = Recommendation("errors", "", 0)
       /\ w = 1 => rec[e + 1] = Recommendation("warnings", "", 0)
       /\ \A k \in 1..m :
            /\ rec[e + w + k].kind = "area"
            /\ rec[e + w + k].bank = a
            /\ rec[e + w + k].item \in 1..n
       /\ \A j, k \in 1..m : j # k => rec[e + w + j].item # rec[e + w + k].item
       /\ \A k \in 1..2 :
            /\ rec[e + w + m + k].kind = "general"
            /\ rec[e + w + m + k].item \in 1..GeneralBankSize
       /\ rec[e + w + m + 1].item # rec[e + w + m + 2].item

\* C14 as stated: the list is the errors message iff there are errors, the
\* warnings message iff there are warnings, min(3, bank size) distinct
\* suggestions of the area's bank, then two distinct general suggestions.
C14_RecommendationsShape ==
    pc = "respond" =>
        SampledShape(recommendations, validation_results[1], project[1].priority_area,
                     AreaBankSize(impl, project[1].priority_area))

\* C14 as the code has it: the backend engine returns that list; the enhanced
\* service returns the errors message iff there are errors, then a message
\* for a justification under 1000 characters, one for an empty target
\* audience, one for budget items without a fundraising line, then the whole
\* bank of the area (one suggestion for QSS, RPD and DDP, none for the
\* others), and neither a warnings message nor a general suggestion.
C14_RecommendationsByEngine ==
    pc = "respond" =>
        LET rec == recommendations
            r == validation_results[1]
            p == project[1]
            a == p.priority_area
            kinds == [k \in 1..Len(rec) |-> rec[k].kind]
            on(b, kind) == IF b THEN << kind >> ELSE << >>
        IN /\ impl = "backend" => SampledShape(rec, r, a, 3)
           /\ impl = "enhanced" =>
                /\ kinds = on(Len(r.errors) > 0, "errors")
                           \o on(p.justification < 1000, "justification")
                           \o on(p.target_audience = 0, "target_audience")
                           \o on(Len(p.budget_items) > 0
                                 /\ \A k \in 1..Len(p.budget_items) :
                                       p.budget_items[k].category # "captacao_recursos",
                                 "captacao_recursos")
                           \o on(a \in {"QSS", "RPD", "DDP"}, "area")
                /\ \A k \in 1..Len(rec) : rec[k].kind = "area" => (rec[k].bank = a /\ rec[k].item = 1)

\* the backend engine's list for a result with an error and a warning: seven
\* entries, the area's three in an order other than the bank's
C14_Witness ==
    /\ pc = "respond"
    /\ impl = "backend"
    /\ Len(validation_results[1].errors) > 0
    /\ Len(validation_results[1].warnings) > 0
    /\ Len(recommendations) = 7
    /\ recommendations[3].item = 3
    /\ recommendations[6].item = 5


\* C15: whatever creation calls were made, no institution holds more than 3
\* projects, and a creation call made for an institution that holds 3 fails
\* naming the maximum of 3 and adds no project.
C15_AtMostThreeProjects ==
    /\ [](\A id \in DOMAIN institutions :
            Cardinality(ProjectsIn(id, {"draft", "submitted"})) <= 3)
    /\ [][\A id \in DOMAIN institutions :
            (/\ Cardinality(ProjectsIn(id, {"draft", "submitted"})) >= 3
             /\ (CreateProject \/ PostProject)
             /\ http_response'.status_code # 404
             /\ institutions[id].credential_valid)
            => (projects' = projects /\ http_response'.detail = "maximum"
                /\ http_response'.maximum = 3)]_vars


\* C16: a validated package without an audit line, a package without any
\* budget item included, is invalid and carries an error about the audit; a
\* validated package with an audit line carries no such error.
C16_MissingAuditIsAnError ==
    Validated =>
        LET p == project[1]
            r == validation_results[1]
            audit_error == \E k \in 1..Len(r.errors) : r.errors[k].check = "auditoria"
        IN IF HasCategory(p.budget_items, "auditoria")
           THEN ~audit_error
           ELSE ~r.is_valid /\ audit_error


\* C17: no step of any request, successful or failed, changes the knowledge
\* base, so the engine that awaits the next request holds the distribution
\* maps it was constructed with.
C17_KnowledgeBaseUnchanged ==
    /\ [][priority_areas' = priority_areas]_vars
    /\ [](pc = "idle" => priority_areas = [a \in AreaCodes |-> BudgetDistribution(impl, a)])

\* the enhanced service has written a budget from a map and returned
C17_Witness ==
    /\ pc = "done"
    /\ impl = "enhanced"
    /\ "budget" \in {steps[k] : k \in 1..Len(steps)}
    /\ priority_areas[area_code] = NormalizeDistribution(priority_areas[area_code])


\* C18: in the order the steps of a request have run, the validator comes
\* after the five generators and works on the assembled package, both scorers
\* and the recommendation generator come after the validator, and a response
\* exists only once all of them have run.
C18_StepsInOrder ==
    LET before(k) == {steps[j] : j \in 1..(k - 1)}
    IN /\ \A k \in 1..Len(steps) :
            /\ steps[k] = "validate" =>
                    ({"structure", "team", "budget", "timeline", "goals"} \subseteq before(k)
                     /\ Len(project) = 1)
            /\ steps[k] \in {"compliance_score", "confidence_score", "recommendations"} =>
                    ("validate" \in before(k) /\ Len(validation_results) = 1)
       /\ Len(response) = 1 =>
            {"validate", "compliance_score", "confidence_score", "recommendations"}
                \subseteq before(Len(steps) + 1)

\* a request of the enhanced service that has returned, its goals written
\* before its timeline
C18_Witness ==
    /\ pc = "done"
    /\ Len(response) = 1
    /\ steps = << "structure", "team", "budget", "goals", "timeline", "validate",
                  "compliance_score", "confidence_score", "recommendations" >>


C20_SalariesInRangeWithinShare ==
    (pc = "budget" /\ steps[Len(steps)] = "team") =>
        /\ impl = "backend" =>
              \A k \in 1..Len(team_members) :
                 LET info == TeamSalaryRanges(RoleMapping(team_members[k].role))
                 IN /\ team_members[k].monthly_salary >= Cents(info.min)
                    /\ team_members[k].monthly_salary <= Cents(info.max)
        /\ 24 * SumSeq([k \in 1..Len(team_members) |-> team_members[k].monthly_salary])
              <= budget_total * Percent(priority_areas[area_code], "pessoal")



\* the shares of a distribution map added up, percent
DistributionSum(dist) == SumSeq([k \in 1..Len(dist) |-> dist[k][2]])

\* C21: the budget step leaves a map that holds an audit entry as it is; into
\* a map without one it puts audit at 5 percent and multiplies every other
\* share by the same factor 95 / (sum of the shares), so that the map sums to
\* 100 percent; the map it leaves is one the guard would leave unchanged; and
\* the map of every area of the knowledge base sums to 100 percent.
C21_NormalizationInjectsAudit ==
    /\ [][GenerateBudget /\ impl = "enhanced" =>
            LET before == priority_areas[area_code]
                after == priority_areas'[area_code]
            IN /\ Percent(before, "auditoria") > 0 => after = before
               /\ Percent(before, "auditoria") = 0 =>
                     /\ Len(after) = Len(before) + 1
                     /\ after[Len(after)] = <<"auditoria", 5>>
                     /\ \A k \in 1..Len(before) :
                           /\ after[k][1] = before[k][1]
                           /\ after[k][2] * DistributionSum(before) = before[k][2] * 95
                     /\ DistributionSum(after) = 100
               /\ NormalizeDistribution(after) = after]_vars
    /\ [](\A a \in AreaCodes :
            priority_areas[a] = BudgetDistribution(impl, a) => DistributionSum(priority_areas[a]) = 100)

\* the budget step has rescaled a map of two shares that came without audit
C21_Witness ==
    /\ pc # "budget"
    /\ impl = "enhanced"
    /\ priority_areas[area_code] = << <<"pessoal", 57>>, <<"material_permanente", 38>>, <<"auditoria", 5>> >>



\* C22: in a returned package every category with a positive share in the
\* area's map has at least one budget line, and its lines sum to total_budget
\* times the share within 0.01; a fundraising line clipped to its cap is excepted.
C22_EveryShareHasItsLines ==
    Returned =>
        LET items == response[1].project.budget_items
        IN \A c \in Categories :
              (/\ Percent(priority_areas[area_code], c) > 0
               /\ ~(c = "captacao_recursos" /\ ClippedExcess(items, budget_total) > 0)) =>
                  /\ HasCategory(items, c)
                  /\ Abs(CategoryTotal(items, c) - budget_total * Percent(priority_areas[area_code], c)) <= 1



\* indicator names that count the people a project serves
BeneficiaryCountIndicators ==
    {"Numero de beneficiarios atendidos", "Numero de pessoas atendidas mensalmente",
     "Numero de pessoas em reabilitacao", "Numero de criancas em estimulacao precoce",
     "Numero de pessoas capacitadas", "Numero de praticantes regulares",
     "Numero de pessoas em TAA", "Numero de participantes nas oficinas"}

\* indicator names that measure the users' satisfaction
SatisfactionRateIndicators ==
    {"Taxa de satisfacao dos usuarios", "Percentual de satisfacao dos usuarios"}

\* C23 as stated: the goals of a returned package hold a beneficiary-count
\* indicator and a satisfaction-rate indicator, plus at most one more, so
\* there are 2 or 3 of them.
C23_TwoCommonIndicators ==
    Returned =>
        LET gs == response[1].project.goals
        IN /\ \E k \in 1..Len(gs) : gs[k] \in BeneficiaryCountIndicators
           /\ \E k \in 1..Len(gs) : gs[k] \in SatisfactionRateIndicators
           /\ Len(gs) \in {2, 3}

\* C23 amended: the enhanced service attaches its two common indicators first
\* and at most one more; the backend attaches three indicators of the area's
\* own table, with a satisfaction rate among them for QSS only; either way a
\* returned package has 2 or 3 goals, no two of them the same.
C23_IndicatorsByEngine ==
    Returned =>
        LET gs == response[1].project.goals
        IN /\ Len(gs) \in {2, 3}
           /\ \A j, k \in 1..Len(gs) : j # k => gs[j] # gs[k]
           /\ impl = "enhanced" =>
                 /\ gs[1] = "Taxa de satisfacao dos usuarios"
                 /\ gs[2] = "Numero de beneficiarios atendidos"
                 /\ Len(gs) = 3 <=> area_code \in {"QSS", "RPD", "DDP"}
           /\ impl = "backend" =>
                 /\ Len(gs) = 3
                 /\ (\E k \in 1..3 : gs[k] \in SatisfactionRateIndicators) <=> area_code = "QSS"

\* the backend returned a package for an area other than QSS: its three goals
\* hold no satisfaction rate
C23_Witness ==
    /\ Returned
    /\ impl = "backend"
    /\ area_code = "RPD"
    /\ Len(response[1].project.goals) = 3
    /\ \A k \in 1..3 : response[1].project.goals[k] \notin SatisfactionRateIndicators



\* the phases of the given lengths chained end to end from month 1, the last
\* end clamped to d
ChainedPhases(lengths, d) ==
    [k \in 1..Len(lengths) |->
        Phase(SumSeq(SubSeq(lengths, 1, k - 1)) + 1,
              IF k = Len(lengths) THEN Min2(SumSeq(lengths), d) ELSE SumSeq(SubSeq(lengths, 1, k)))]

\* C24 as stated: for a duration over 12 the timeline has exactly four
\* phases of lengths max(1, d/8), max(1, d/3), max(1, d/3) and max(1, d/4)
\* (floored), chained from month 1, the last end clamped to the duration; for a
\* duration up to 12 it has exactly three phases.
C24_FourPhasesOverTwelve ==
    TimelineBuilt =>
        LET d == timeline_months
        IN IF d > 12
           THEN timeline = ChainedPhases(<< Max2(1, d \div 8), Max2(1, d \div 3),
                                            Max2(1, d \div 3), Max2(1, d \div 4) >>, d)
           ELSE Len(timeline) = 3

\* C24 amended: over 12 months the enhanced service writes exactly four phases
\* of lengths max(2, d/8), d/3, d/3 and d/4 (floored), chained from month 1,
\* the last end clamped to the duration, and the backend exactly three: months
\* 1 to 3, 4 to d - 3 and d - 2 to d. Up to 12 months the backend writes
\* exactly three phases, 1 to 2, 3 to d - 1 and d to d, and the enhanced
\* service has no shorter template: it writes four phases for 7 to 12 months.
C24_PhasesByEngine ==
    TimelineBuilt =>
        LET d == timeline_months
        IN /\ (impl = "enhanced" /\ d > 12) =>
                 timeline = ChainedPhases(<< Max2(2, d \div 8), d \div 3, d \div 3, d \div 4 >>, d)
           /\ (impl = "enhanced" /\ d >= 7 /\ d <= 12) => Len(timeline) = 4
           /\ (impl = "backend" /\ d > 12) =>
                 timeline = << Phase(1, 3), Phase(4, d - 3), Phase(d - 2, d) >>
           /\ (impl = "backend" /\ d <= 12) =>
                 timeline = << Phase(1, 2), Phase(3, d - 1), Phase(d, d) >>

\* the enhanced service on 13 months: a first phase of two months where
\* max(1, 13/8) is one
C24_Witness ==
    /\ TimelineBuilt
    /\ impl = "enhanced"
    /\ timeline_months = 13
    /\ timeline = << Phase(1, 2), Phase(3, 6), Phase(7, 10), Phase(11, 13) >>



\* two packages with the same numbers of team members, budget lines, goals
\* and timeline phases
SameCounts(p, q) ==
    /\ Len(p.team_members) = Len(q.team_members)
    /\ Len(p.budget_items) = Len(q.budget_items)
    /\ Len(p.goals) = Len(q.goals)
    /\ Len(p.timeline) = Len(q.timeline)

\* the packages a scored package is compared with: every hand-made package
\* of a duration at or next to a bound of [6, 48], and the scored package
\* with its audit line booked as consumables
PackagesToCompare(p) ==
    {HandPackage(d, defect) : d \in {5, 6, 48, 49}, defect \in Defects}
    \cup {[p EXCEPT !.budget_items =
              [k \in 1..Len(@) |-> IF @[k].category = "auditoria"
                                   THEN [@[k] EXCEPT !.category = "material_consumo"] ELSE @[k]]]}

\* what the backend scorer reads besides the counts: the area, the fields
\* that are filled, the duration being in [6, 48], and the budget holding
\* both a personnel and an audit line
SameBackendFactors(p, q) ==
    /\ p.priority_area = q.priority_area
    /\ (p.justification > 0) = (q.justification > 0)
    /\ (p.methodology > 0) = (q.methodology > 0)
    /\ (Len(p.specific_objectives) > 0) = (Len(q.specific_objectives) > 0)
    /\ (6 <= p.timeline_months /\ p.timeline_months <= 48) = (6 <= q.timeline_months /\ q.timeline_months <= 48)
    /\ (HasCategory(p.budget_items, "pessoal") /\ HasCategory(p.budget_items, "auditoria"))
          = (HasCategory(q.budget_items, "pessoal") /\ HasCategory(q.budget_items, "auditoria"))

HasEntry(r, check) ==
    \/ \E k \in 1..Len(r.errors) : r.errors[k].check = check
    \/ \E k \in 1..Len(r.warnings) : r.warnings[k].check = check

\* C26: whatever else is wrong with a validated package, a team without a
\* coordinator (an empty team included), fewer than 2 goals and fewer than 3
\* timeline phases each have their own entry among the errors or the warnings.
C26_EveryCheckHasItsEntry ==
    Validated =>
        LET p == project[1]
            r == validation_results[1]
        IN /\ (~\E k \in 1..Len(p.team_members) : IsCoordinatorRole(p.team_members[k].role))
                 => HasEntry(r, "coordenador")
           /\ Len(p.goals) < 2 => HasEntry(r, "goals")
           /\ Len(p.timeline) < 3 => HasEntry(r, "timeline")



\* C27: every random choice of a request draws from a generator of the
\* request's own, no state of which another request reads or writes: the
\* k-th choice of a request gets the k-th output of its generator, whatever
\* the other request has drawn meanwhile.
C27_RandomSourcePerRequest ==
    \A r \in Requests : \A k \in 1..Len(samples[r]) : samples[r][k].output = k


\* C28: a package whose validation holds an error never scores 1.0 for
\* compliance, whatever its team size and the lengths of its texts.
C28_ErrorsKeepScoreUnderOne ==
    (Scored /\ Len(validation_results[1].errors) >= 1) => compliance_score[1] < 6000



\* C29: for a duration in [6,48] the last phase of the timeline ends at the
\* requested duration, and every month from 1 to the duration lies in a phase.
C29_TimelineCoversDuration ==
    (TimelineBuilt /\ DurationInRange) =>
        /\ timeline[Len(timeline)].end_month = timeline_months
        /\ \A m \in 1..timeline_months :
              \E k \in 1..Len(timeline) : timeline[k].start_month <= m /\ m <= timeline[k].end_month



====
